---- MODULE Spec2Model ----
(***************************************************************************)
(* Patient consultation agent: the session store (MedicalDatabase, three   *)
(* SQLite tables) and the consultation graph (initialize ->                *)
(* collect_basic_info -> ask_followup <-> store_response) of               *)
(* src/src/agents/patient_consultation_agent.py, and the question parsing  *)
(* and ranking of src/src/agents/tools.py.                                 *)
(*                                                                         *)
(* Strings are sequences of one-character strings, so that strip, split    *)
(* and the e-mail pattern are computed character by character.  Python's   *)
(* None is the one-element sequence <<"None">>, which no string equals.    *)
(* The columns with DEFAULT CURRENT_TIMESTAMP hold the value of clock, the *)
(* store's time in seconds; consultation_end_time is null or not null.     *)
(***************************************************************************)
EXTENDS Integers, Sequences, FiniteSets, TLC

VARIABLES
    consultations,  \* table patient_consultations, rows in rowid order
    responses,      \* table patient_responses, rows in rowid order
    summaries,      \* table consultation_summaries, rows in rowid order
    pc,             \* the graph node about to run, or how the turn ended
    st,             \* the graph state (PatientConsultationState) of the turn
    steps,          \* node executions of the turn so far
    pre,            \* the three tables as they were when the turn began
    visited,        \* per session created in this run: the stages its state held
    wb,             \* per session created in this run: well-behaved turns so far
    cpc,            \* store callers: position inside get_or_create_consultation
    carg,           \* store callers: arguments of the call in progress
    cret,           \* store callers: value returned by the last call
    calls,          \* store callers: calls started so far
    tool,           \* the call of a function of tools.py: name, argument, result
    clock,          \* CURRENT_TIMESTAMP of the store, in its unit (one second)
    api,            \* the last direct call of a store operation and its result
    other           \* a second turn in flight: its node, graph state and steps

vars == <<consultations, responses, summaries, pc, st, steps, pre, visited, wb,
          cpc, carg, cret, calls, tool, clock, api, other>>
storeVars == <<consultations, responses, summaries>>
turnVars == <<pc, st, steps, pre, visited, wb>>
callerVars == <<cpc, carg, cret, calls>>

----------------------------------------------------------------------------
(* Bounds *)

RecursionLimit == 25    \* node executions the graph runtime allows one turn
MaxVisited == 7         \* stage changes recorded per session
MaxCalls == 3           \* store calls per caller
MaxIndex == 6           \* largest cursor value handed to store_response alone

----------------------------------------------------------------------------
(* Python values *)

None == <<"None">>

Truthy(v) == v # None /\ v # <<>>    \* of a string or None

NonEmpty(list) == list # <<>>         \* of a list

IsSpace(c) == c = " "

IsWord(c) == c \in {"a", "b", "c"}          \* \w

IsLocal(c) == IsWord(c) \/ c \in {".", "-"}  \* [\w\.-]

RECURSIVE LStrip(_)
LStrip(s) == IF s # <<>> /\ IsSpace(Head(s)) THEN LStrip(Tail(s)) ELSE s

RECURSIVE RStrip(_)
RStrip(s) == IF s # <<>> /\ IsSpace(s[Len(s)])
             THEN RStrip(SubSeq(s, 1, Len(s) - 1)) ELSE s

Strip(s) == RStrip(LStrip(s))

AllWord(s, i, j) == \A k \in i..j : IsWord(s[k])

AllLocal(s, i, j) == \A k \in i..j : IsLocal(s[k])

\* re.match(r'^[\w\.-]+@[\w\.-]+\.\w+$', email)
EmailMatch(s) ==
    \E i \in 2..Len(s) : \E j \in (i + 2)..(Len(s) - 1) :
        /\ s[i] = "@"
        /\ s[j] = "."
        /\ AllLocal(s, 1, i - 1)
        /\ AllLocal(s, i + 1, j - 1)
        /\ AllWord(s, j + 1, Len(s))

\* str.split(","): the pieces between the commas, empty pieces included
RECURSIVE SplitAcc(_, _, _)
SplitAcc(s, cur, acc) ==
    IF s = <<>> THEN Append(acc, cur)
    ELSE IF Head(s) = "," THEN SplitAcc(Tail(s), <<>>, Append(acc, cur))
    ELSE SplitAcc(Tail(s), Append(cur, Head(s)), acc)

Split(s) == SplitAcc(s, <<>>, <<>>)

RECURSIVE StripNonEmpty(_)
StripNonEmpty(parts) ==
    IF parts = <<>> THEN <<>>
    ELSE IF Strip(Head(parts)) # <<>>
         THEN <<Strip(Head(parts))>> \o StripNonEmpty(Tail(parts))
         ELSE StripNonEmpty(Tail(parts))

\* the symptom list without the fallback to the whole input
ParseSymptomsNoFallback(user_input) == StripNonEmpty(Split(user_input))

\* symptoms = [s.strip() for s in user_input.split(",") if s.strip()]
\* if not symptoms: symptoms = [user_input.strip()]
ParseSymptoms(user_input) ==
    LET symptoms == StripNonEmpty(Split(user_input))
    IN  IF symptoms = <<>> THEN <<Strip(user_input)>> ELSE symptoms

Quote == "\""

Backslash == "\\"

\* the characters written as they are, none escaped
EscapeNothing(s) == s

\* json.dumps of one string: the characters between the quotes, with the
\* quote, the backslash and the newline escaped
RECURSIVE EscapeJson(_)
EscapeJson(s) ==
    IF s = <<>> THEN <<>>
    ELSE (CASE Head(s) = Quote -> <<Backslash, Quote>>
            [] Head(s) = Backslash -> <<Backslash, Backslash>>
            [] Head(s) = "\n" -> <<Backslash, "n">>
            [] OTHER -> <<Head(s)>>) \o EscapeJson(Tail(s))

RECURSIVE JoinItems(_)
JoinItems(list) ==
    IF list = <<>> THEN <<>>
    ELSE <<Quote>> \o EscapeJson(Head(list)) \o <<Quote>> \o
         (IF Tail(list) = <<>> THEN <<>> ELSE <<",", " ">>) \o
         JoinItems(Tail(list))

\* json.dumps of a list of strings: ["a", "b"]
JsonDumps(list) == <<"[">> \o JoinItems(list) \o <<"]">>

\* the Python value json.loads gives for the text of a number: no list
PyInt == << <<"int">> >>

IsJsonSpace(c) == c \in {" ", "\n", "\t", "\r"}

IsDecimal(c) == c \in {"0", "1", "2", "3", "4", "5", "6", "7", "8", "9"}

JsonError == [kind |-> "JSONDecodeError", value |-> <<>>, next |-> 0]

RECURSIVE SkipSpace(_, _)
SkipSpace(text, i) ==
    IF i <= Len(text) /\ IsJsonSpace(text[i]) THEN SkipSpace(text, i + 1) ELSE i

\* the characters of a JSON string after its opening quote, up to the
\* closing quote
RECURSIVE ScanString(_, _, _)
ScanString(text, i, acc) ==
    IF i > Len(text) THEN JsonError
    ELSE IF text[i] = Quote
    THEN [kind |-> "str", value |-> acc, next |-> i + 1]
    ELSE IF text[i] = Backslash
    THEN IF i + 1 > Len(text) THEN JsonError
         ELSE IF text[i + 1] \in {Quote, Backslash, "/"}
         THEN ScanString(text, i + 2, Append(acc, text[i + 1]))
         ELSE IF text[i + 1] = "n"
         THEN ScanString(text, i + 2, Append(acc, "\n"))
         ELSE JsonError
    ELSE IF text[i] \in {"\n", "\t", "\r"} THEN JsonError
    ELSE ScanString(text, i + 1, Append(acc, text[i]))

\* the items of a JSON array of strings, from the first item to the "]"
RECURSIVE ScanItems(_, _, _)
ScanItems(text, i, acc) ==
    IF i > Len(text) \/ text[i] # Quote THEN JsonError
    ELSE LET item == ScanString(text, i + 1, <<>>)
             j == SkipSpace(text, item.next)
         IN  IF item.kind # "str" \/ j > Len(text) THEN JsonError
             ELSE IF text[j] = "]"
             THEN [kind |-> "list", value |-> Append(acc, item.value),
                   next |-> j + 1]
             ELSE IF text[j] = ","
             THEN ScanItems(text, SkipSpace(text, j + 1), Append(acc, item.value))
             ELSE JsonError

\* one JSON value at position i: an array of strings or a number of decimal
\* digits; every other text tried is no JSON document
ScanValue(text, i) ==
    IF i > Len(text) THEN JsonError
    ELSE IF text[i] = "["
    THEN LET j == SkipSpace(text, i + 1)
         IN  IF j <= Len(text) /\ text[j] = "]"
             THEN [kind |-> "list", value |-> <<>>, next |-> j + 1]
             ELSE ScanItems(text, j, <<>>)
    ELSE IF IsDecimal(text[i])
    THEN LET stop == CHOOSE k \in (i + 1)..(Len(text) + 1) :
                        /\ \A m \in i..(k - 1) : IsDecimal(text[m])
                        /\ k > Len(text) \/ ~IsDecimal(text[k])
         IN  IF text[i] = "0" /\ stop > i + 1 THEN JsonError
             ELSE [kind |-> "int", value |-> PyInt, next |-> stop]
    ELSE JsonError

\* json.loads(text): the value, or JSONDecodeError when the text is no JSON
\* document or is followed by more than white space
JsonDecode(text) ==
    LET doc == ScanValue(text, SkipSpace(text, 1))
    IN  IF doc.kind = "JSONDecodeError" THEN doc
        ELSE IF SkipSpace(text, doc.next) <= Len(text) THEN JsonError
        ELSE doc

JsonWellFormed(text) == JsonDecode(text).kind # "JSONDecodeError"

JsonLoads(text) == JsonDecode(text).value

Uppercase ==
    <<"A", "B", "C", "D", "E", "F", "G", "H", "I", "J", "K", "L", "M",
      "N", "O", "P", "Q", "R", "S", "T", "U", "V", "W", "X", "Y", "Z">>

Lowercase ==
    <<"a", "b", "c", "d", "e", "f", "g", "h", "i", "j", "k", "l", "m",
      "n", "o", "p", "q", "r", "s", "t", "u", "v", "w", "x", "y", "z">>

\* str.lower() of one character
Lower(c) ==
    IF \E i \in DOMAIN Uppercase : Uppercase[i] = c
    THEN Lowercase[CHOOSE i \in DOMAIN Uppercase : Uppercase[i] = c]
    ELSE c

\* sub in text: the test without lower()
ContainsExact(text, sub) ==
    \E i \in 1..(Len(text) - Len(sub) + 1) :
        \A k \in 1..Len(sub) : text[i + k - 1] = sub[k]

\* sub in text.lower()
ContainsLower(text, sub) ==
    \E i \in 1..(Len(text) - Len(sub) + 1) :
        \A k \in 1..Len(sub) : Lower(text[i + k - 1]) = sub[k]

Severe == <<"s", "e", "v", "e", "r", "e">>

NoCall == [fn |-> "none", arg |-> <<>>, ret |-> <<>>, done |-> FALSE]

NoApi == [op |-> "none", n |-> 0, latest |-> <<>>]

----------------------------------------------------------------------------
(* class ConsultationStage *)

GREETING == "greeting"
COLLECTING_BASIC_INFO == "collecting_basic_info"
COLLECTING_SYMPTOMS == "collecting_symptoms"
ASKING_FOLLOWUP_QUESTIONS == "asking_followup_questions"
SUMMARY == "summary"
COMPLETED == "completed"

ConsultationStage ==
    <<GREETING, COLLECTING_BASIC_INFO, COLLECTING_SYMPTOMS,
      ASKING_FOLLOWUP_QUESTIONS, SUMMARY, COMPLETED>>

StageValues == {ConsultationStage[i] : i \in DOMAIN ConsultationStage}

----------------------------------------------------------------------------
(* class MedicalDatabase: the three tables and the five operations *)

RowsOf(tbl, session_id) ==
    {i \in DOMAIN tbl : tbl[i].session_id = session_id}

\* SELECT * FROM patient_consultations WHERE session_id = ?; fetchone():
\* <<>> for no row, else <<the first matching row>>
SelectConsultation(tbl, session_id) ==
    IF RowsOf(tbl, session_id) = {} THEN <<>>
    ELSE <<tbl[CHOOSE i \in RowsOf(tbl, session_id) :
                   \A j \in RowsOf(tbl, session_id) : i <= j]>>

\* the row INSERT INTO patient_consultations (session_id, user_id,
\* consultation_stage, symptoms_reported) makes, the other columns at their
\* DEFAULT
NewConsultationRow(tbl, session_id, user_id) ==
    [id |-> Len(tbl) + 1,
     session_id |-> session_id,
     user_id |-> user_id,
     patient_name |-> None,
     patient_email |-> None,
     consultation_stage |-> GREETING,
     symptoms_reported |-> JsonDumps(<<>>),
     current_symptom_index |-> 0,
     current_question_index |-> 0,
     consultation_start_time |-> clock,
     consultation_end_time |-> None,
     completed |-> FALSE,
     summary_generated |-> FALSE,
     created_at |-> clock,
     updated_at |-> clock]

\* a schema whose session_id column is not UNIQUE
UniqueViolationNever(tbl, session_id) == FALSE

\* session_id TEXT UNIQUE NOT NULL
UniqueViolation(tbl, session_id) == RowsOf(tbl, session_id) # {}

\* the dictionary get_or_create_consultation returns after it has inserted
CreatedConsultation(session_id, user_id) ==
    [session_id |-> session_id,
     user_id |-> user_id,
     consultation_stage |-> GREETING,
     patient_name |-> None,
     patient_email |-> None,
     symptoms_reported |-> JsonDumps(<<>>),
     current_symptom_index |-> 0,
     current_question_index |-> 0,
     completed |-> FALSE]

\* get_or_create_consultation that returns the new consultation and does not
\* insert it
GetOrCreateWithoutInsert(tbl, session_id, user_id) ==
    LET result == SelectConsultation(tbl, session_id)
    IN  IF result # <<>>
        THEN [table |-> tbl, data |-> result[1]]
        ELSE [table |-> tbl, data |-> CreatedConsultation(session_id, user_id)]

\* get_or_create_consultation run without interruption: the table afterwards
\* and the value returned
GetOrCreateConsultation(tbl, session_id, user_id) ==
    LET result == SelectConsultation(tbl, session_id)
    IN  IF result # <<>>
        THEN [table |-> tbl, data |-> result[1]]
        ELSE [table |-> Append(tbl, NewConsultationRow(tbl, session_id, user_id)),
              data |-> CreatedConsultation(session_id, user_id)]

AllowList ==
    {"patient_name", "patient_email", "consultation_stage", "symptoms_reported",
     "current_symptom_index", "current_question_index", "completed",
     "consultation_end_time"}

\* update_consultation whose allow-list lacks consultation_stage
UpdateConsultationNoStage(tbl, session_id, kwargs) ==
    LET set_clauses == DOMAIN kwargs \cap (AllowList \ {"consultation_stage"})
    IN  IF set_clauses = {} THEN tbl
        ELSE [i \in DOMAIN tbl |->
                IF tbl[i].session_id = session_id
                THEN [k \in DOMAIN tbl[i] |->
                        IF k \in set_clauses THEN kwargs[k]
                        ELSE IF k = "updated_at" THEN clock ELSE tbl[i][k]]
                ELSE tbl[i]]

\* update_consultation without the allow-list: every keyword that names a
\* column is set
UpdateAnyColumn(tbl, session_id, kwargs) ==
    LET set_clauses == DOMAIN kwargs
    IN  IF set_clauses = {} THEN tbl
        ELSE [i \in DOMAIN tbl |->
                IF tbl[i].session_id = session_id
                THEN [k \in DOMAIN tbl[i] |->
                        IF k \in set_clauses THEN kwargs[k]
                        ELSE IF k = "updated_at" THEN clock ELSE tbl[i][k]]
                ELSE tbl[i]]

\* update_consultation whose UPDATE has no WHERE session_id = ?
UpdateEveryRow(tbl, session_id, kwargs) ==
    LET set_clauses == DOMAIN kwargs \cap AllowList
    IN  IF set_clauses = {} THEN tbl
        ELSE [i \in DOMAIN tbl |->
                [k \in DOMAIN tbl[i] |->
                    IF k \in set_clauses THEN kwargs[k]
                    ELSE IF k = "updated_at" THEN clock ELSE tbl[i][k]]]

\* update_consultation(session_id, **kwargs); kwargs is a function from the
\* keyword names to their values
UpdateConsultation(tbl, session_id, kwargs) ==
    LET set_clauses == DOMAIN kwargs \cap AllowList
    IN  IF set_clauses = {} THEN tbl
        ELSE [i \in DOMAIN tbl |->
                IF tbl[i].session_id = session_id
                THEN [k \in DOMAIN tbl[i] |->
                        IF k \in set_clauses THEN kwargs[k]
                        ELSE IF k = "updated_at" THEN clock ELSE tbl[i][k]]
                ELSE tbl[i]]

\* save_patient_response that keeps one row per session and question: the
\* new answer takes the place of the old one
SaveResponseReplacing(tbl, session_id, question_id, question_text, category, response_text, symptom_name) ==
    LET Other(row) == row.session_id # session_id \/ row.question_id # question_id
        kept == SelectSeq(tbl, Other)
    IN  Append(kept, [id |-> Len(tbl) + 1,
                      session_id |-> session_id,
                      question_id |-> question_id,
                      question_text |-> question_text,
                      question_category |-> category,
                      response_text |-> response_text,
                      symptom_name |-> symptom_name,
                      response_timestamp |-> clock])

\* save_patient_response: a plain INSERT (sqlite3 does not enforce the
\* FOREIGN KEY clause unless PRAGMA foreign_keys is switched on)
SavePatientResponse(tbl, session_id, question_id, question_text, category, response_text, symptom_name) ==
    Append(tbl, [id |-> Len(tbl) + 1,
                 session_id |-> session_id,
                 question_id |-> question_id,
                 question_text |-> question_text,
                 question_category |-> category,
                 response_text |-> response_text,
                 symptom_name |-> symptom_name,
                 response_timestamp |-> clock])

\* save_consultation_summary that inserts nothing
SaveNoSummary(tbl, session_id, summary_text, key_findings, red_flags, recommendations, next_steps) == tbl

\* save_consultation_summary by a plain INSERT into a table whose session_id
\* is not UNIQUE
SaveSummaryAppend(tbl, session_id, summary_text, key_findings, red_flags, recommendations, next_steps) ==
    Append(tbl, [session_id |-> session_id,
                 summary_text |-> summary_text,
                 key_findings |-> JsonDumps(key_findings),
                 red_flags |-> JsonDumps(red_flags),
                 recommendations |-> JsonDumps(recommendations),
                 next_steps |-> JsonDumps(next_steps),
                 generated_at |-> clock])

\* save_consultation_summary: INSERT OR REPLACE on the UNIQUE session_id
SaveConsultationSummary(tbl, session_id, summary_text, key_findings, red_flags, recommendations, next_steps) ==
    LET Other(row) == row.session_id # session_id
        kept == SelectSeq(tbl, Other)
    IN  Append(kept, [session_id |-> session_id,
                      summary_text |-> summary_text,
                      key_findings |-> JsonDumps(key_findings),
                      red_flags |-> JsonDumps(red_flags),
                      recommendations |-> JsonDumps(recommendations),
                      next_steps |-> JsonDumps(next_steps),
                      generated_at |-> clock])

\* the rows in rowid order, put in the order of their response_timestamp;
\* rows of one timestamp stay in rowid order, which is what the sorter of
\* SQLite does with a scan in rowid order (measured with SQLite 3.40.1)
RECURSIVE OrderByTimestamp(_)
OrderByTimestamp(rows) ==
    IF rows = <<>> THEN <<>>
    ELSE LET last == rows[Len(rows)]
             sorted == OrderByTimestamp(SubSeq(rows, 1, Len(rows) - 1))
             NotLater(row) == row.response_timestamp <= last.response_timestamp
             Later(row) == row.response_timestamp > last.response_timestamp
         IN  SelectSeq(sorted, NotLater) \o <<last>> \o SelectSeq(sorted, Later)

\* a sorter that puts the rows of one timestamp in the reverse of their
\* rowid order
RECURSIVE OrderTiesReversed(_)
OrderTiesReversed(rows) ==
    IF rows = <<>> THEN <<>>
    ELSE LET last == rows[Len(rows)]
             sorted == OrderTiesReversed(SubSeq(rows, 1, Len(rows) - 1))
             Earlier(row) == row.response_timestamp < last.response_timestamp
             NotEarlier(row) == row.response_timestamp >= last.response_timestamp
         IN  SelectSeq(sorted, Earlier) \o <<last>> \o SelectSeq(sorted, NotEarlier)

\* get_consultation_responses with that sorter
GetResponsesTiesReversed(tbl, session_id) ==
    LET Mine(row) == row.session_id = session_id
        results == OrderTiesReversed(SelectSeq(tbl, Mine))
    IN  [i \in DOMAIN results |->
            [question |-> results[i].question_text,
             response |-> results[i].response_text,
             category |-> results[i].question_category,
             symptom |-> results[i].symptom_name]]

\* get_consultation_responses: SELECT ... WHERE session_id = ?
\* ORDER BY response_timestamp
GetConsultationResponses(tbl, session_id) ==
    LET Mine(row) == row.session_id = session_id
        results == OrderByTimestamp(SelectSeq(tbl, Mine))
    IN  [i \in DOMAIN results |->
            [question |-> results[i].question_text,
             response |-> results[i].response_text,
             category |-> results[i].question_category,
             symptom |-> results[i].symptom_name]]

----------------------------------------------------------------------------
(* The graph state and the messages *)

Sessions == {<<"s1">>, <<"s2">>}    \* session ids (uuid strings)
Users == {<<"u1">>, <<"u2">>}       \* user ids of store callers
DefaultUser == <<"default">>        \* config["configurable"].get("user_id", "default")
Callers == {"p1", "p2"}             \* processes that call the store directly

HumanMessage(content) == [type |-> "human", kind |-> "input", content |-> content]

AIMessage(kind, content) == [type |-> "ai", kind |-> kind, content |-> content]

\* the user inputs tried: blank, a word padded with blanks (a name, a one-symptom
\* text, an answer, not an e-mail), a valid e-mail, two symptoms, a comma
\* with nothing around it, symptoms among empty pieces
Blank == <<" ">>
PaddedWord == <<" ", "a", " ">>
Email == <<"a", "@", "b", ".", "c">>
TwoSymptoms == <<"a", ",", " ", "b">>
OnlyComma == <<" ", ",", " ">>
EmptyTokens == <<",", "b", " ", "c", ",", " ", ",", " ", "a", " ">>
Inputs == {Blank, PaddedWord, Email, TwoSymptoms, OnlyComma, EmptyTokens}

\* state["messages"][-1] if state["messages"] else None;
\* last_message.content if isinstance(last_message, HumanMessage) else ""
LastIsHuman(state) ==
    state.messages # <<>> /\ state.messages[Len(state.messages)].type = "human"

UserInput(state) ==
    IF LastIsHuman(state) THEN state.messages[Len(state.messages)].content ELSE <<>>

\* the five template questions of ask_followup_questions
StandardQuestions(current_symptom) ==
    << <<"When did your ", current_symptom, " first start?">>,
       <<"How would you describe your ", current_symptom, " (mild, moderate, severe)?">>,
       <<"Does your ", current_symptom, " get worse with activity or at rest?">>,
       <<"Have you taken any medication for your ", current_symptom, "?">>,
       <<"Do you have any other symptoms that occur along with this one?">> >>

\* the copy with the first two questions in the other order
StandardQuestionsSwapped(current_symptom) ==
    << <<"How would you describe your ", current_symptom, " (mild, moderate, severe)?">>,
       <<"When did your ", current_symptom, " first start?">>,
       <<"Does your ", current_symptom, " get worse with activity or at rest?">>,
       <<"Have you taken any medication for your ", current_symptom, "?">>,
       <<"Do you have any other symptoms that occur along with this one?">> >>

\* the copy of the same list inside store_response
StandardQuestionsOfStore(current_symptom) ==
    << <<"When did your ", current_symptom, " first start?">>,
       <<"How would you describe your ", current_symptom, " (mild, moderate, severe)?">>,
       <<"Does your ", current_symptom, " get worse with activity or at rest?">>,
       <<"Have you taken any medication for your ", current_symptom, "?">>,
       <<"Do you have any other symptoms that occur along with this one?">> >>

NumQuestions == 5       \* len(standard_questions)
QuestionCap == 5        \* if current_question_index >= 5

\* f"q_{current_symptom_index}_{n}"
QuestionId(symptom_idx, question_idx) == <<"q", symptom_idx, question_idx>>

\* the state a turn starts from: the input message, the session id when the
\* caller gave one, every other key unset (read through .get with its default)
InputState(session_id, uuid, content) ==
    [messages |-> <<HumanMessage(content)>>,
     session_id |-> session_id,
     uuid4 |-> uuid,
     consultation_stage |-> "absent",
     patient_data |-> [name |-> None, email |-> None, symptoms |-> <<>>],
     current_symptom_index |-> 0,
     current_question_index |-> 0,
     consultation_complete |-> FALSE]

\* state.get("session_id") or str(uuid4())
SessionOf(state) ==
    IF Truthy(state.session_id) THEN state.session_id ELSE state.uuid4

----------------------------------------------------------------------------
(* The graph nodes.  Each takes the graph state and the store (the three   *)
(* tables) and gives the state and the store it leaves.                    *)

Store == [consultations |-> consultations, responses |-> responses,
          summaries |-> summaries]

\* datetime.now().isoformat(): a text that tells the time of the call
Now == <<"time", ToString(clock)>>

\* initialize_consultation that does not load patient_name from the store
InitializeWithoutName(state, db) ==
    LET session_id == SessionOf(state)
        goc == GetOrCreateConsultation(db.consultations, session_id, DefaultUser)
        consultation_data == goc.data
        symptoms_json == consultation_data.symptoms_reported
        symptoms == IF symptoms_json # None /\ JsonWellFormed(symptoms_json)
                    THEN JsonLoads(symptoms_json) ELSE <<>>
    IN  [error |-> consultation_data.consultation_stage \notin StageValues,
         db |-> [db EXCEPT !.consultations = goc.table],
         state |-> [state EXCEPT
             !.consultation_stage = consultation_data.consultation_stage,
             !.patient_data = [name |-> None,
                               email |-> consultation_data.patient_email,
                               symptoms |-> symptoms],
             !.current_symptom_index = consultation_data.current_symptom_index,
             !.current_question_index = consultation_data.current_question_index,
             !.consultation_complete = consultation_data.completed,
             !.session_id = session_id,
             !.uuid4 = None]]

\* initialize_consultation; error is the ValueError of ConsultationStage(...)
\* on a stored stage that is no member of the enum
InitializeConsultation(state, db) ==
    LET session_id == SessionOf(state)
        goc == GetOrCreateConsultation(db.consultations, session_id, DefaultUser)
        consultation_data == goc.data
        symptoms_json == consultation_data.symptoms_reported
        symptoms == IF symptoms_json # None /\ JsonWellFormed(symptoms_json)
                    THEN JsonLoads(symptoms_json) ELSE <<>>
    IN  [error |-> consultation_data.consultation_stage \notin StageValues,
         db |-> [db EXCEPT !.consultations = goc.table],
         state |-> [state EXCEPT
             !.consultation_stage = consultation_data.consultation_stage,
             !.patient_data = [name |-> consultation_data.patient_name,
                               email |-> consultation_data.patient_email,
                               symptoms |-> symptoms],
             !.current_symptom_index = consultation_data.current_symptom_index,
             !.current_question_index = consultation_data.current_question_index,
             !.consultation_complete = consultation_data.completed,
             !.session_id = session_id,
             !.uuid4 = None]]

\* collect_basic_info
CollectBasicInfo(state, db) ==
    LET user_input == UserInput(state)
        stage == state.consultation_stage
        patient_data == state.patient_data
        session_id == state.session_id
        branch ==
            IF stage = GREETING THEN "greeting"
            ELSE IF stage = COLLECTING_BASIC_INFO
            THEN IF ~Truthy(patient_data.name) /\ Strip(user_input) # <<>>
                 THEN "name"
                 ELSE IF ~Truthy(patient_data.email) /\ Strip(user_input) # <<>>
                 THEN IF EmailMatch(Strip(user_input)) THEN "email"
                      ELSE "invalid_email"
                 ELSE "reprompt_info"
            ELSE IF stage = COLLECTING_SYMPTOMS
            THEN IF Strip(user_input) # <<>> /\ ~NonEmpty(patient_data.symptoms)
                 THEN "symptoms" ELSE "reprompt_symptoms"
            ELSE "gather_more"
        new_patient_data ==
            CASE branch = "name" -> [patient_data EXCEPT !.name = Strip(user_input)]
              [] branch = "email" -> [patient_data EXCEPT !.email = Strip(user_input)]
              [] branch = "symptoms" ->
                    [patient_data EXCEPT !.symptoms = ParseSymptoms(user_input)]
              [] OTHER -> patient_data
        new_stage ==
            CASE branch = "greeting" -> COLLECTING_BASIC_INFO
              [] branch = "email" -> COLLECTING_SYMPTOMS
              [] branch = "symptoms" -> ASKING_FOLLOWUP_QUESTIONS
              [] branch = "gather_more" -> ASKING_FOLLOWUP_QUESTIONS
              [] OTHER -> stage
        response ==
            CASE branch = "name" -> <<"Thank you, ", new_patient_data.name>>
              [] branch = "email" -> <<"Perfect! Now, ", new_patient_data.name>>
              [] branch = "symptoms" ->
                    <<"I understand you're experiencing: ", new_patient_data.symptoms>>
              [] OTHER -> <<branch>>
        kwargs ==
            CASE branch = "name" ->
                    [patient_name |-> new_patient_data.name,
                     consultation_stage |-> new_stage]
              [] branch = "email" ->
                    [patient_email |-> new_patient_data.email,
                     consultation_stage |-> new_stage]
              [] OTHER ->
                    [symptoms_reported |-> JsonDumps(new_patient_data.symptoms),
                     consultation_stage |-> new_stage]
    IN  [db |-> IF branch \in {"name", "email", "symptoms"}
                THEN [db EXCEPT !.consultations =
                         UpdateConsultation(db.consultations, session_id, kwargs)]
                ELSE db,
         state |-> [state EXCEPT
             !.messages = Append(@, AIMessage(branch, response)),
             !.consultation_stage = new_stage,
             !.patient_data = new_patient_data,
             !.consultation_complete = (new_stage = COMPLETED)]]

\* generate_consultation_summary
GenerateConsultationSummary(state, db) ==
    LET patient_data == state.patient_data
        session_id == state.session_id
        responses_ == GetConsultationResponses(db.responses, session_id)
        summary == [name |-> patient_data.name,
                    email |-> patient_data.email,
                    symptoms |-> patient_data.symptoms,
                    responses |-> [i \in DOMAIN responses_ |->
                                     <<responses_[i].question, responses_[i].response>>]]
        HasSevere(resp) == ContainsLower(resp.response, Severe)
        findings == SelectSeq(responses_, HasSevere)
        key_findings == [i \in DOMAIN findings |-> findings[i].response]
    IN  [db |-> [db EXCEPT
             !.summaries = SaveConsultationSummary(@, session_id, summary,
                 key_findings, <<>>,
                 << <<"Schedule appointment with healthcare provider">>,
                    <<"Bring consultation summary to appointment">>,
                    <<"Seek immediate care for emergency symptoms">> >>,
                 << <<"Contact primary care physician">>,
                    <<"Review summary before appointment">>,
                    <<"Monitor symptoms">> >>),
             !.consultations = UpdateConsultation(@, session_id,
                 [completed |-> TRUE,
                  consultation_end_time |-> Now,
                  consultation_stage |-> COMPLETED])],
         state |-> [state EXCEPT
             !.messages = Append(@, AIMessage("summary", <<summary>>)),
             !.consultation_stage = COMPLETED,
             !.consultation_complete = TRUE]]

\* ask_followup_questions with the cap counted per symptom: at the cap it moves
\* to the next symptom and starts its questions over
AskFollowupPerSymptom(state, db) ==
    LET symptoms == state.patient_data.symptoms
        current_symptom_index == state.current_symptom_index
        current_question_index == state.current_question_index
        session_id == state.session_id
        rotate == /\ current_question_index >= QuestionCap
                  /\ current_symptom_index + 1 < Len(symptoms)
        symptom_index == IF rotate THEN current_symptom_index + 1
                         ELSE current_symptom_index
        question_index == IF rotate THEN 0 ELSE current_question_index
    IN  IF \/ ~NonEmpty(symptoms)
           \/ question_index >= QuestionCap
           \/ symptom_index >= Len(symptoms)
        THEN GenerateConsultationSummary(state, db)
        ELSE [db |-> [db EXCEPT !.consultations =
                 UpdateConsultation(@, session_id,
                     [current_symptom_index |-> symptom_index,
                      current_question_index |-> question_index + 1])],
              state |-> [state EXCEPT
                 !.messages = Append(@, AIMessage("question",
                     StandardQuestions(symptoms[symptom_index + 1])[question_index + 1])),
                 !.consultation_stage = ASKING_FOLLOWUP_QUESTIONS,
                 !.current_symptom_index = symptom_index,
                 !.current_question_index = question_index + 1,
                 !.consultation_complete = FALSE]]

\* ask_followup_questions that takes the question cursor from the stored row
\* and not from the state loaded when the turn began
AskFollowupRereading(state, db) ==
    LET symptoms == state.patient_data.symptoms
        current_symptom_index == state.current_symptom_index
        session_id == state.session_id
        current_question_index ==
            SelectConsultation(db.consultations, session_id)[1].current_question_index
    IN  IF ~NonEmpty(symptoms) THEN GenerateConsultationSummary(state, db)
        ELSE IF current_question_index >= QuestionCap
        THEN GenerateConsultationSummary(state, db)
        ELSE IF /\ current_symptom_index < Len(symptoms)
                /\ current_question_index < NumQuestions
        THEN LET current_symptom == symptoms[current_symptom_index + 1]
                 question ==
                     StandardQuestions(current_symptom)[current_question_index + 1]
             IN  [db |-> [db EXCEPT !.consultations =
                     UpdateConsultation(@, session_id,
                         [current_question_index |-> current_question_index + 1])],
                  state |-> [state EXCEPT
                     !.messages = Append(@, AIMessage("question", question)),
                     !.consultation_stage = ASKING_FOLLOWUP_QUESTIONS,
                     !.current_question_index = current_question_index + 1,
                     !.consultation_complete = FALSE]]
        ELSE GenerateConsultationSummary(state, db)

\* ask_followup_questions
AskFollowupQuestions(state, db) ==
    LET symptoms == state.patient_data.symptoms
        current_symptom_index == state.current_symptom_index
        current_question_index == state.current_question_index
        session_id == state.session_id
    IN  IF ~NonEmpty(symptoms) THEN GenerateConsultationSummary(state, db)
        ELSE IF current_question_index >= QuestionCap
        THEN GenerateConsultationSummary(state, db)
        ELSE IF /\ current_symptom_index < Len(symptoms)
                /\ current_question_index < NumQuestions
        THEN LET current_symptom == symptoms[current_symptom_index + 1]
                 question ==
                     StandardQuestions(current_symptom)[current_question_index + 1]
             IN  [db |-> [db EXCEPT !.consultations =
                     UpdateConsultation(@, session_id,
                         [current_question_index |-> current_question_index + 1])],
                  state |-> [state EXCEPT
                     !.messages = Append(@, AIMessage("question", question)),
                     !.consultation_stage = ASKING_FOLLOWUP_QUESTIONS,
                     !.current_question_index = current_question_index + 1,
                     !.consultation_complete = FALSE]]
        ELSE GenerateConsultationSummary(state, db)

\* store_response
StoreResponse(state, db) ==
    LET user_input == UserInput(state)
        current_question_index == state.current_question_index
        current_symptom_index == state.current_symptom_index
        session_id == state.session_id
        symptoms == state.patient_data.symptoms
    IN  IF /\ LastIsHuman(state)
           /\ NonEmpty(symptoms)
           /\ current_symptom_index < Len(symptoms)
        THEN LET current_symptom == symptoms[current_symptom_index + 1]
                 question_id ==
                     QuestionId(current_symptom_index, current_question_index - 1)
                 question_idx == (current_question_index - 1) % NumQuestions
                 question_text ==
                     StandardQuestionsOfStore(current_symptom)[question_idx + 1]
             IN  [db |-> [db EXCEPT !.responses =
                     SavePatientResponse(@, session_id, question_id, question_text,
                         <<"symptom_details">>, user_input, current_symptom)],
                  state |-> state]
        ELSE [db |-> db, state |-> state]

\* route_after_basic_info
RouteAfterBasicInfo(state) ==
    IF state.consultation_complete THEN "END"
    ELSE IF state.consultation_stage = ASKING_FOLLOWUP_QUESTIONS THEN "ask_followup"
    ELSE "collect_basic_info"

\* route_after_followup
RouteAfterFollowup(state) ==
    IF state.consultation_complete THEN "END" ELSE "store_response"

----------------------------------------------------------------------------
(* The store when the program starts.  The database file outlives the      *)
(* process (CREATE TABLE IF NOT EXISTS) and update_consultation is open to *)
(* every caller, so a session may already have a row.  The rows tried are  *)
(* those an interview leaves behind, write by write in its order: created, *)
(* greeted, name, e-mail, symptoms, one cursor update per question, the    *)
(* summary.                                                                *)

SeedName == <<"a">>
SeedSymptoms == {<< <<"a">> >>, << <<"a">>, <<"b">> >>}
\* greeted, name, e-mail, symptoms, one cursor update per question, summary
SummaryLevel == 4 + QuestionCap + 1

\* the state initialize_consultation would load from the store
Loaded(db, session_id) ==
    InitializeConsultation(InputState(session_id, None, <<>>), db).state

RECURSIVE Seeded(_, _, _, _)
Seeded(db, session_id, symptoms, level) ==
    IF level = 0
    THEN [db EXCEPT !.consultations =
             GetOrCreateConsultation(@, session_id, DefaultUser).table]
    ELSE LET before == Seeded(db, session_id, symptoms, level - 1)
             kwargs ==
                 CASE level = 1 -> [consultation_stage |-> COLLECTING_BASIC_INFO]
                   [] level = 2 -> [patient_name |-> SeedName,
                                    consultation_stage |-> COLLECTING_BASIC_INFO]
                   [] level = 3 -> [patient_email |-> Email,
                                    consultation_stage |-> COLLECTING_SYMPTOMS]
                   [] level = 4 -> [symptoms_reported |-> JsonDumps(symptoms),
                                    consultation_stage |-> ASKING_FOLLOWUP_QUESTIONS]
                   [] OTHER -> [current_question_index |-> level - 4]
         IN  IF level = SummaryLevel
             THEN GenerateConsultationSummary(Loaded(before, session_id), before).db
             ELSE [before EXCEPT !.consultations =
                      UpdateConsultation(@, session_id, kwargs)]

EmptyStore == [consultations |-> <<>>, responses |-> <<>>, summaries |-> <<>>]

\* the stores with no row, or one seeded row, for a session
SeedChoices(db, session_id) ==
    {db} \cup {Seeded(db, session_id, symptoms, level) :
                  symptoms \in SeedSymptoms, level \in 0..SummaryLevel}

InitialStores ==
    UNION {SeedChoices(db, <<"s2">>) : db \in SeedChoices(EmptyStore, <<"s1">>)}

HasRow(db, session_id) == RowsOf(db.consultations, session_id) # {}

Idle == [messages |-> <<>>, session_id |-> None, uuid4 |-> None,
         consultation_stage |-> "absent",
         patient_data |-> [name |-> None, email |-> None, symptoms |-> <<>>],
         current_symptom_index |-> 0, current_question_index |-> 0,
         consultation_complete |-> FALSE]

Untracked == <<"untracked">>

NoTurn == [pc |-> "idle", st |-> Idle, steps |-> 0, pre |-> EmptyStore]

Init ==
    /\ clock = 0
    /\ \E db \in InitialStores :
          /\ consultations = db.consultations
          /\ responses = db.responses
          /\ summaries = db.summaries
          /\ pre = db
          /\ visited = [s \in Sessions |-> IF HasRow(db, s) THEN Untracked ELSE <<>>]
          /\ wb = [s \in Sessions |-> IF HasRow(db, s) THEN -1 ELSE 0]
    /\ pc = "idle"
    /\ st = Idle
    /\ steps = 0
    /\ cpc = [p \in Callers |-> "idle"]
    /\ carg = [p \in Callers |-> <<>>]
    /\ cret = [p \in Callers |-> <<>>]
    /\ calls = [p \in Callers |-> 0]
    /\ tool = NoCall
    /\ api = NoApi
    /\ other = NoTurn

----------------------------------------------------------------------------
(* One turn: a run of the compiled graph on a new user message *)

Nodes == {"initialize", "collect_basic_info", "ask_followup", "store_response"}

TurnOver == pc \notin Nodes

\* the well-behaved user's turns, in order: a first message, the name, the
\* e-mail, the symptoms, an answer to each of the five questions
ScriptLen == 9

Fits(position, content) ==
    CASE position = 1 -> TRUE
      [] position = 3 -> EmailMatch(Strip(content))
      [] OTHER -> Strip(content) # <<>>

WellBehaved(n, content) ==
    IF n >= 0 /\ n < ScriptLen /\ Fits(n + 1, content) THEN n + 1 ELSE -1

\* the stages the state of a session created in this run has held
Track(log, stage) ==
    IF /\ log # Untracked
       /\ Len(log) < MaxVisited
       /\ (log = <<>> \/ log[Len(log)] # stage)
    THEN Append(log, stage) ELSE log

Apply(result) ==
    /\ st' = result.state
    /\ consultations' = result.db.consultations
    /\ responses' = result.db.responses
    /\ summaries' = result.db.summaries
    /\ steps' = steps + 1
    /\ visited' = [visited EXCEPT ![result.state.session_id] =
                      Track(@, result.state.consultation_stage)]
    /\ UNCHANGED <<pre, wb, callerVars, tool, clock, api, other>>

\* the caller invokes the graph: with a session id, or with none, and then
\* uuid4() gives an id that no row has
BeginTurn(session_id, given, content) ==
    /\ TurnOver
    /\ given \/ ~HasRow(Store, session_id)
    /\ st' = IF given THEN InputState(session_id, None, content)
                      ELSE InputState(None, session_id, content)
    /\ pc' = "initialize"
    /\ steps' = 0
    /\ pre' = Store
    /\ wb' = [wb EXCEPT ![session_id] = WellBehaved(@, content)]
    /\ UNCHANGED <<storeVars, visited, callerVars, tool, clock, api, other>>

Initialize ==
    /\ pc = "initialize"
    /\ steps < RecursionLimit
    /\ LET result == InitializeConsultation(st, Store)
       IN  /\ Apply(result)
           /\ pc' = IF result.error THEN "ValueError" ELSE "collect_basic_info"

CollectBasicInfoStep ==
    /\ pc = "collect_basic_info"
    /\ steps < RecursionLimit
    /\ LET result == CollectBasicInfo(st, Store)
       IN  /\ Apply(result)
           /\ pc' = RouteAfterBasicInfo(result.state)

\* len(symptoms) in ask_followup_questions, and the loop over the symptoms
\* in generate_consultation_summary, raise TypeError on a value that is no
\* list, before anything is written
RaisesTypeError(state) == state.patient_data.symptoms = PyInt

AskFollowupStep ==
    /\ pc = "ask_followup"
    /\ steps < RecursionLimit
    /\ IF RaisesTypeError(st)
       THEN /\ pc' = "TypeError"
            /\ UNCHANGED <<storeVars, st, steps, pre, visited, wb, callerVars, tool, clock, api, other>>
       ELSE LET result == AskFollowupQuestions(st, Store)
            IN  /\ Apply(result)
                /\ pc' = RouteAfterFollowup(result.state)

StoreResponseStep ==
    /\ pc = "store_response"
    /\ steps < RecursionLimit
    /\ Apply(StoreResponse(st, Store))
    /\ pc' = "ask_followup"

\* the graph runtime stops a run that has not reached END within the limit
RaiseRecursionError ==
    /\ pc \in Nodes
    /\ steps >= RecursionLimit
    /\ pc' = "GraphRecursionError"
    /\ UNCHANGED <<storeVars, st, steps, pre, visited, wb, callerVars, tool, clock, api, other>>

----------------------------------------------------------------------------
(* Callers of the store: get_or_create_consultation statement by statement, *)
(* as two processes that share the database file run it                    *)

\* the SELECT; a row found is returned at once
GocSelect(p, session_id, user_id) ==
    /\ cpc[p] = "idle"
    /\ calls[p] < MaxCalls
    /\ calls' = [calls EXCEPT ![p] = @ + 1]
    /\ carg' = [carg EXCEPT ![p] = <<session_id, user_id>>]
    /\ LET result == SelectConsultation(consultations, session_id)
       IN  IF result # <<>>
           THEN /\ cret' = [cret EXCEPT ![p] =
                      <<[raised |-> FALSE, data |-> result[1]]>>]
                /\ cpc' = cpc
           ELSE /\ cret' = [cret EXCEPT ![p] = <<>>]
                /\ cpc' = [cpc EXCEPT ![p] = "insert"]
    /\ UNCHANGED <<storeVars, turnVars, tool, clock, api, other>>

\* the INSERT and the return of the new consultation; the UNIQUE constraint
\* makes sqlite3 raise IntegrityError when the session has a row by now
GocInsert(p) ==
    /\ cpc[p] = "insert"
    /\ cpc' = [cpc EXCEPT ![p] = "idle"]
    /\ IF UniqueViolation(consultations, carg[p][1])
       THEN /\ cret' = [cret EXCEPT ![p] =
                  <<[raised |-> TRUE, data |-> [error |-> "IntegrityError"]]>>]
            /\ consultations' = consultations
       ELSE /\ cret' = [cret EXCEPT ![p] =
                  <<[raised |-> FALSE,
                     data |-> CreatedConsultation(carg[p][1], carg[p][2])]>>]
            /\ consultations' =
                  Append(consultations,
                         NewConsultationRow(consultations, carg[p][1], carg[p][2]))
    /\ UNCHANGED <<responses, summaries, turnVars, carg, calls, tool, clock, api, other>>

NextGoc ==
    \/ \E p \in Callers, session_id \in Sessions, user_id \in Users :
          GocSelect(p, session_id, user_id)
    \/ \E p \in Callers : GocInsert(p)

SpecGoc == Init /\ [][NextGoc]_vars

Next ==
    \/ \E session_id \in Sessions, given \in BOOLEAN, content \in Inputs :
          BeginTurn(session_id, given, content)
    \/ Initialize
    \/ CollectBasicInfoStep
    \/ AskFollowupStep
    \/ StoreResponseStep
    \/ RaiseRecursionError

Spec == Init /\ [][Next]_vars

----------------------------------------------------------------------------
(* Two turns in flight.  The nodes are coroutines that never await and the *)
(* store calls are synchronous, so a node runs as one step; between the    *)
(* nodes of one run of the graph the nodes of another run may execute.     *)
(* The turn of pc, st, steps is the first, the one of other is the second. *)

ParInputs == {PaddedWord, Email, TwoSymptoms}

\* the rows tried for a session: none, or the row left by the name, the
\* e-mail, the symptoms, the last question
ParSeeds(db, session_id) ==
    {db} \cup {Seeded(db, session_id, << <<"a">>, <<"b">> >>, level) :
                  level \in {2, 3, 4, 4 + QuestionCap}}

OtherBegin(session_id, content) ==
    /\ other.pc = "idle"
    /\ other' = [pc |-> "initialize",
                 st |-> InputState(session_id, None, content),
                 steps |-> 0,
                 pre |-> Store]
    /\ UNCHANGED <<storeVars, turnVars, callerVars, tool, clock, api>>

OtherApply(result, next) ==
    /\ other' = [other EXCEPT !.st = result.state, !.steps = @ + 1, !.pc = next]
    /\ consultations' = result.db.consultations
    /\ responses' = result.db.responses
    /\ summaries' = result.db.summaries
    /\ UNCHANGED <<turnVars, callerVars, tool, clock, api>>

OtherInitialize ==
    /\ other.pc = "initialize"
    /\ other.steps < RecursionLimit
    /\ LET result == InitializeConsultation(other.st, Store)
       IN  OtherApply(result, IF result.error THEN "ValueError"
                              ELSE "collect_basic_info")

OtherCollectBasicInfo ==
    /\ other.pc = "collect_basic_info"
    /\ other.steps < RecursionLimit
    /\ LET result == CollectBasicInfo(other.st, Store)
       IN  OtherApply(result, RouteAfterBasicInfo(result.state))

OtherAskFollowup ==
    /\ other.pc = "ask_followup"
    /\ other.steps < RecursionLimit
    /\ LET result == AskFollowupQuestions(other.st, Store)
       IN  OtherApply(result, RouteAfterFollowup(result.state))

OtherStoreResponse ==
    /\ other.pc = "store_response"
    /\ other.steps < RecursionLimit
    /\ OtherApply(StoreResponse(other.st, Store), "ask_followup")

OtherRaiseRecursionError ==
    /\ other.pc \in Nodes
    /\ other.steps >= RecursionLimit
    /\ other' = [other EXCEPT !.pc = "GraphRecursionError"]
    /\ UNCHANGED <<storeVars, turnVars, callerVars, tool, clock, api>>

InitPar ==
    /\ clock = 0
    /\ \E db \in UNION {ParSeeds(one, <<"s2">>) :
                          one \in ParSeeds(EmptyStore, <<"s1">>)} :
          /\ consultations = db.consultations
          /\ responses = db.responses
          /\ summaries = db.summaries
          /\ pre = db
    /\ pc = "idle"
    /\ st = Idle
    /\ steps = 0
    /\ visited = [s \in Sessions |-> Untracked]
    /\ wb = [s \in Sessions |-> -1]
    /\ cpc = [p \in Callers |-> "idle"]
    /\ carg = [p \in Callers |-> <<>>]
    /\ cret = [p \in Callers |-> <<>>]
    /\ calls = [p \in Callers |-> 0]
    /\ tool = NoCall
    /\ api = NoApi
    /\ other = NoTurn

\* one turn each, on different sessions
NextPar ==
    \/ \E content \in ParInputs : pc = "idle" /\ BeginTurn(<<"s1">>, TRUE, content)
    \/ Initialize
    \/ CollectBasicInfoStep
    \/ AskFollowupStep
    \/ StoreResponseStep
    \/ RaiseRecursionError
    \/ \E content \in ParInputs : OtherBegin(<<"s2">>, content)
    \/ OtherInitialize
    \/ OtherCollectBasicInfo
    \/ OtherAskFollowup
    \/ OtherStoreResponse
    \/ OtherRaiseRecursionError

SpecPar == InitPar /\ [][NextPar]_vars

\* one turn each, on the same session
NextRace ==
    \/ \E content \in ParInputs : pc = "idle" /\ BeginTurn(<<"s1">>, TRUE, content)
    \/ Initialize
    \/ CollectBasicInfoStep
    \/ AskFollowupStep
    \/ StoreResponseStep
    \/ RaiseRecursionError
    \/ \E content \in ParInputs : OtherBegin(<<"s1">>, content)
    \/ OtherInitialize
    \/ OtherCollectBasicInfo
    \/ OtherAskFollowup
    \/ OtherStoreResponse
    \/ OtherRaiseRecursionError

SpecRace == InitPar /\ [][NextRace]_vars

----------------------------------------------------------------------------
(* Storage failures.  Every operation of MedicalDatabase opens its own     *)
(* connection and commits before it returns; a node calls the operations   *)
(* one after another and catches nothing, so an sqlite3 error in one of    *)
(* them ends the turn there, with the earlier operations committed.        *)
(* store_response reaches save_patient_response in no turn of the graph,   *)
(* so no failure is placed there.                                          *)

Raise ==
    /\ pc' = "OperationalError"
    /\ UNCHANGED <<st, steps, pre, visited, wb, callerVars, tool, clock, api, other>>

\* get_or_create_consultation fails
FailInitialize ==
    /\ pc = "initialize"
    /\ steps < RecursionLimit
    /\ Raise
    /\ UNCHANGED storeVars

\* the update_consultation of collect_basic_info fails
FailCollectBasicInfo ==
    /\ pc = "collect_basic_info"
    /\ steps < RecursionLimit
    /\ LET result == CollectBasicInfo(st, Store)
       IN  result.state.messages[Len(result.state.messages)].kind \in
               {"name", "email", "symptoms"}
    /\ Raise
    /\ UNCHANGED storeVars

\* the first storage operation of ask_followup_questions fails: its
\* update_consultation, or the get_consultation_responses or the
\* save_consultation_summary of generate_consultation_summary
FailAskFollowup ==
    /\ pc = "ask_followup"
    /\ steps < RecursionLimit
    /\ Raise
    /\ UNCHANGED storeVars

\* the update_consultation of generate_consultation_summary fails, after
\* save_consultation_summary has committed
FailSummaryUpdate ==
    /\ pc = "ask_followup"
    /\ steps < RecursionLimit
    /\ LET result == AskFollowupQuestions(st, Store)
       IN  /\ result.state.messages[Len(result.state.messages)].kind = "summary"
           /\ summaries' = result.db.summaries
    /\ Raise
    /\ UNCHANGED <<consultations, responses>>

NextFail ==
    \/ \E session_id \in Sessions, given \in BOOLEAN, content \in Inputs :
          BeginTurn(session_id, given, content)
    \/ Initialize
    \/ CollectBasicInfoStep
    \/ AskFollowupStep
    \/ StoreResponseStep
    \/ RaiseRecursionError
    \/ FailInitialize
    \/ FailCollectBasicInfo
    \/ FailAskFollowup
    \/ FailSummaryUpdate

\* one session with a row or none, the other with none
InitFail ==
    /\ clock = 0
    /\ \E db \in SeedChoices(EmptyStore, <<"s1">>) :
          /\ consultations = db.consultations
          /\ responses = db.responses
          /\ summaries = db.summaries
          /\ pre = db
          /\ visited = [s \in Sessions |-> Untracked]
          /\ wb = [s \in Sessions |-> -1]
    /\ pc = "idle"
    /\ st = Idle
    /\ steps = 0
    /\ cpc = [p \in Callers |-> "idle"]
    /\ carg = [p \in Callers |-> <<>>]
    /\ cret = [p \in Callers |-> <<>>]
    /\ calls = [p \in Callers |-> 0]
    /\ tool = NoCall
    /\ api = NoApi
    /\ other = NoTurn

SpecFail == InitFail /\ [][NextFail]_vars

----------------------------------------------------------------------------
(* Turns on rows whose stage column holds a value the graph itself never   *)
(* leaves there: 'summary', or a text that is no member of the enum.  The  *)
(* column is TEXT and update_consultation writes whatever it is given.     *)

UnknownStage == "unknown"

\* a row with its symptoms stored and no or all questions asked, its stage
\* overwritten
StageSeeded(db, session_id, symptoms, level, stage) ==
    [Seeded(db, session_id, symptoms, level) EXCEPT !.consultations =
        UpdateConsultation(@, session_id, [consultation_stage |-> stage])]

StageChoices(db, session_id) ==
    {db, Seeded(db, session_id, << <<"a">> >>, SummaryLevel)}
    \cup {StageSeeded(db, session_id, << <<"a">> >>, level, stage) :
              level \in {4, SummaryLevel - 1}, stage \in {SUMMARY, UnknownStage}}

InitStage ==
    /\ clock = 0
    /\ \E db \in UNION {StageChoices(one, <<"s2">>) :
                             one \in StageChoices(EmptyStore, <<"s1">>)} :
          /\ consultations = db.consultations
          /\ responses = db.responses
          /\ summaries = db.summaries
          /\ pre = db
          /\ visited = [s \in Sessions |-> IF HasRow(db, s) THEN Untracked ELSE <<>>]
          /\ wb = [s \in Sessions |-> IF HasRow(db, s) THEN -1 ELSE 0]
    /\ pc = "idle"
    /\ st = Idle
    /\ steps = 0
    /\ cpc = [p \in Callers |-> "idle"]
    /\ carg = [p \in Callers |-> <<>>]
    /\ cret = [p \in Callers |-> <<>>]
    /\ calls = [p \in Callers |-> 0]
    /\ tool = NoCall
    /\ api = NoApi
    /\ other = NoTurn

SpecStage == InitStage /\ [][Next]_vars

----------------------------------------------------------------------------
(* store_response on its own: the node applied to a state whose last       *)
(* message is the user's, for every cursor value                           *)

MaxSymptomIndex == 2

InitSR ==
    /\ clock = 0
    /\ \E session_id \in Sessions, content \in Inputs,
          symptoms \in SeedSymptoms \cup {<<>>},
          symptom_index \in 0..MaxSymptomIndex, question_index \in 0..MaxIndex :
          st = [InputState(session_id, None, content) EXCEPT
                   !.consultation_stage = ASKING_FOLLOWUP_QUESTIONS,
                   !.patient_data.symptoms = symptoms,
                   !.current_symptom_index = symptom_index,
                   !.current_question_index = question_index]
    /\ pc = "store_response"
    /\ steps = 0
    /\ consultations = <<>>
    /\ responses = <<>>
    /\ summaries = <<>>
    /\ pre = EmptyStore
    /\ visited = [s \in Sessions |-> Untracked]
    /\ wb = [s \in Sessions |-> -1]
    /\ cpc = [p \in Callers |-> "idle"]
    /\ carg = [p \in Callers |-> <<>>]
    /\ cret = [p \in Callers |-> <<>>]
    /\ calls = [p \in Callers |-> 0]
    /\ tool = NoCall
    /\ api = NoApi
    /\ other = NoTurn

NextSR == StoreResponseStep

SpecSR == InitSR /\ [][NextSR]_vars

----------------------------------------------------------------------------
(* ask_followup_questions on its own: the node applied to the state loaded *)
(* from a row with any symptom list and any pair of cursors                *)

InitAsk ==
    /\ clock = 0
    /\ \E session_id \in Sessions, content \in Inputs,
          symptoms \in SeedSymptoms \cup {<<>>},
          symptom_index \in 0..MaxSymptomIndex, question_index \in 0..MaxIndex :
          \E seeded \in {Seeded(EmptyStore, session_id, symptoms, 4)} :
          \E db \in {[seeded EXCEPT !.consultations =
                        UpdateConsultation(@, session_id,
                            [current_symptom_index |-> symptom_index,
                             current_question_index |-> question_index])]} :
              /\ consultations = db.consultations
              /\ responses = db.responses
              /\ summaries = db.summaries
              /\ pre = db
              /\ st = [Loaded(db, session_id) EXCEPT
                          !.messages = <<HumanMessage(content)>>]
    /\ pc = "ask_followup"
    /\ steps = 0
    /\ visited = [s \in Sessions |-> Untracked]
    /\ wb = [s \in Sessions |-> -1]
    /\ cpc = [p \in Callers |-> "idle"]
    /\ carg = [p \in Callers |-> <<>>]
    /\ cret = [p \in Callers |-> <<>>]
    /\ calls = [p \in Callers |-> 0]
    /\ tool = NoCall
    /\ api = NoApi
    /\ other = NoTurn

NextAsk == AskFollowupStep

SpecAsk == InitAsk /\ [][NextAsk]_vars

----------------------------------------------------------------------------
(* Summary generation against stored responses: a turn on a session whose  *)
(* questions have all been asked, with response rows in the store that     *)
(* callers of save_patient_response left there                             *)

MaxResponses == 3

ResponseTexts ==
    {Severe, <<"x", "S", "e", "V", "e", "r", "e", "!">>,
     <<"s", "e", "v", "e", "r">>, <<"a">>}

\* the lists of up to n answers, each of some session
AnswerLists(n) == UNION {[1..k -> Sessions \X ResponseTexts] : k \in 0..n}

RECURSIVE SaveAnswers(_, _)
SaveAnswers(tbl, answers) ==
    IF answers = <<>> THEN tbl
    ELSE SaveAnswers(
             SavePatientResponse(tbl, answers[1][1], QuestionId(0, Len(tbl)),
                 StandardQuestions(SeedName)[(Len(tbl) % NumQuestions) + 1],
                 <<"symptom_details">>, answers[1][2], SeedName),
             Tail(answers))

InitSum ==
    /\ clock = 0
    /\ \E answers \in AnswerLists(MaxResponses), symptoms \in SeedSymptoms :
          LET one == Seeded(EmptyStore, <<"s1">>, symptoms, SummaryLevel - 1)
              two == Seeded(one, <<"s2">>, symptoms, SummaryLevel - 1)
              db == [two EXCEPT !.responses = SaveAnswers(<<>>, answers)]
          IN  /\ consultations = db.consultations
              /\ responses = db.responses
              /\ summaries = db.summaries
              /\ pre = db
    /\ \E session_id \in Sessions : st = InputState(session_id, None, PaddedWord)
    /\ pc = "initialize"
    /\ steps = 0
    /\ visited = [s \in Sessions |-> Untracked]
    /\ wb = [s \in Sessions |-> -1]
    /\ cpc = [p \in Callers |-> "idle"]
    /\ carg = [p \in Callers |-> <<>>]
    /\ cret = [p \in Callers |-> <<>>]
    /\ calls = [p \in Callers |-> 0]
    /\ tool = NoCall
    /\ api = NoApi
    /\ other = NoTurn

NextSum ==
    \/ Initialize
    \/ CollectBasicInfoStep
    \/ AskFollowupStep

SpecSum == InitSum /\ [][NextSum]_vars

----------------------------------------------------------------------------
(* Turns on a row whose symptoms_reported column holds a text that         *)
(* json.dumps of a list did not write.  The column is TEXT and             *)
(* update_consultation stores whatever it is given.                        *)

NotJson == <<"n", "o", "t", " ", "j", "s", "o", "n">>
Unclosed == <<"[", Quote, "a", Quote>>
Number == <<"5">>

\* the values tried: NULL, the empty text, two texts that are no JSON
\* document, and the JSON document of a number
OddSymptomTexts == {None, <<>>, NotJson, Unclosed, Number}

InitJson ==
    /\ clock = 0
    /\ \E level \in {3, 4, 4 + QuestionCap}, text \in OddSymptomTexts :
          LET seeded == Seeded(EmptyStore, <<"s1">>, << <<"a">> >>, level)
              db == [seeded EXCEPT !.consultations =
                        UpdateConsultation(@, <<"s1">>,
                            [symptoms_reported |-> text])]
          IN  /\ consultations = db.consultations
              /\ responses = db.responses
              /\ summaries = db.summaries
              /\ pre = db
    /\ pc = "idle"
    /\ st = Idle
    /\ steps = 0
    /\ visited = [s \in Sessions |-> Untracked]
    /\ wb = [s \in Sessions |-> -1]
    /\ cpc = [p \in Callers |-> "idle"]
    /\ carg = [p \in Callers |-> <<>>]
    /\ cret = [p \in Callers |-> <<>>]
    /\ calls = [p \in Callers |-> 0]
    /\ tool = NoCall
    /\ api = NoApi
    /\ other = NoTurn

SpecJson == InitJson /\ [][Next]_vars

----------------------------------------------------------------------------
(* The operations of MedicalDatabase called directly, as                   *)
(* scripts/test_medical_db.py calls them: any operation, for any session,  *)
(* in any order, while the store's clock advances                          *)

MaxApiCalls == 3        \* direct calls of store operations
MaxClock == 1           \* seconds the clock advances

\* symptom lists handed to json.dumps by the caller: plain items, and items
\* with a quote, a backslash, a comma and a newline in them
PlainList == << <<"b">>, <<"a">> >>
AwkwardList == << <<"a", Quote>>, <<Backslash, "n">>, <<"b", ",", " ", "\n">> >>
SymptomLists == {PlainList, AwkwardList}

\* the keyword arguments of update_consultation tried: none, allow-listed
\* columns, columns outside the allow-list, both
UpdateArgs ==
    {<<>>,
     [patient_name |-> <<"b">>],
     [patient_name |-> <<"c">>, consultation_stage |-> COLLECTING_SYMPTOMS],
     [current_question_index |-> 2, summary_generated |-> TRUE],
     [user_id |-> <<"u2">>, session_id |-> <<"s2">>]}
    \cup {[symptoms_reported |-> JsonDumps(list)] : list \in SymptomLists}

\* the summaries handed to save_consultation_summary
SummaryArgs ==
    {[summary_text |-> <<"first">>, key_findings |-> <<>>],
     [summary_text |-> <<"second">>, key_findings |-> <<Severe>>]}

AnswerTexts == {Severe, <<"a">>}

\* per session, the value the most recent update_consultation gave each
\* allow-listed column it set
Latest(session_id) ==
    IF session_id \in DOMAIN api.latest THEN api.latest[session_id] ELSE <<>>

Updated(session_id, kwargs) ==
    LET set_clauses == DOMAIN kwargs \cap AllowList
        old == Latest(session_id)
    IN  IF ~HasRow(Store, session_id) THEN api.latest
        ELSE (session_id :> [k \in set_clauses \cup DOMAIN old |->
                               IF k \in set_clauses THEN kwargs[k] ELSE old[k]])
             @@ api.latest

\* one direct call: what it was given, what it returned, the store before it
ApiCall(op, session_id, args, ret, db, latest) ==
    /\ api.n < MaxApiCalls
    /\ api' = [op |-> op, n |-> api.n + 1, session_id |-> session_id,
               args |-> args, ret |-> ret, before |-> Store, at |-> clock,
               latest |-> latest]
    /\ consultations' = db.consultations
    /\ responses' = db.responses
    /\ summaries' = db.summaries
    /\ UNCHANGED <<turnVars, callerVars, tool, clock, other>>

ApiGetOrCreate(session_id, user_id) ==
    LET goc == GetOrCreateConsultation(consultations, session_id, user_id)
    IN  ApiCall("get_or_create_consultation", session_id, user_id, goc.data,
                [Store EXCEPT !.consultations = goc.table], api.latest)

ApiUpdate(session_id, kwargs) ==
    ApiCall("update_consultation", session_id, kwargs, None,
            [Store EXCEPT !.consultations =
                UpdateConsultation(@, session_id, kwargs)],
            Updated(session_id, kwargs))

ApiSaveResponse(session_id, response_text) ==
    ApiCall("save_patient_response", session_id, response_text, None,
            [Store EXCEPT !.responses =
                SavePatientResponse(@, session_id, QuestionId(0, 0),
                    StandardQuestions(SeedName)[1], <<"symptom_details">>,
                    response_text, SeedName)],
            api.latest)

ApiSaveSummary(session_id, args) ==
    ApiCall("save_consultation_summary", session_id, args, None,
            [Store EXCEPT !.summaries =
                SaveConsultationSummary(@, session_id, args.summary_text,
                    args.key_findings, <<>>, <<>>, <<>>)],
            api.latest)

ApiGetResponses(session_id) ==
    ApiCall("get_consultation_responses", session_id, <<>>,
            GetConsultationResponses(responses, session_id), Store, api.latest)

\* a second passes
Tick ==
    /\ clock < MaxClock
    /\ clock' = clock + 1
    /\ UNCHANGED <<storeVars, turnVars, callerVars, tool, api, other>>

NextStore ==
    \/ \E session_id \in Sessions : ApiGetOrCreate(session_id, DefaultUser)
    \/ \E session_id \in Sessions, kwargs \in UpdateArgs :
          ApiUpdate(session_id, kwargs)
    \/ \E session_id \in Sessions, response_text \in AnswerTexts :
          ApiSaveResponse(session_id, response_text)
    \/ \E session_id \in Sessions, args \in SummaryArgs :
          ApiSaveSummary(session_id, args)
    \/ \E session_id \in Sessions : ApiGetResponses(session_id)
    \/ Tick

\* both sessions have given their symptoms and each has answered once
Answered ==
    LET one == Seeded(EmptyStore, <<"s1">>, << <<"a">> >>, 4)
        two == Seeded(one, <<"s2">>, << <<"a">> >>, 4)
    IN  [two EXCEPT !.responses =
            SaveAnswers(<<>>, << <<<<"s1">>, <<"a">>>>, <<<<"s2">>, <<"a">>>> >>)]

\* the store is empty, or holds the rows and an answer of both sessions
InitStore ==
    /\ clock = 0
    /\ \E db \in {EmptyStore, Answered} :
          /\ consultations = db.consultations
          /\ responses = db.responses
          /\ summaries = db.summaries
          /\ pre = db
    /\ pc = "idle"
    /\ st = Idle
    /\ steps = 0
    /\ visited = [s \in Sessions |-> Untracked]
    /\ wb = [s \in Sessions |-> -1]
    /\ cpc = [p \in Callers |-> "idle"]
    /\ carg = [p \in Callers |-> <<>>]
    /\ cret = [p \in Callers |-> <<>>]
    /\ calls = [p \in Callers |-> 0]
    /\ tool = NoCall
    /\ api = NoApi
    /\ other = NoTurn

SpecStore == InitStore /\ [][NextStore]_vars

----------------------------------------------------------------------------
(* Turns on a session whose consultation is completed, while time passes:  *)
(* the row and the summary were written at time 0.  The other session has  *)
(* no row, or one with its symptoms taken.                                 *)

InitDone ==
    /\ clock = 0
    /\ \E symptoms \in SeedSymptoms :
       \E done \in {Seeded(EmptyStore, <<"s1">>, symptoms, SummaryLevel)} :
       \E db \in {done, Seeded(done, <<"s2">>, << <<"a">> >>, 4)} :
          /\ consultations = db.consultations
          /\ responses = db.responses
          /\ summaries = db.summaries
          /\ pre = db
    /\ pc = "idle"
    /\ st = Idle
    /\ steps = 0
    /\ visited = [s \in Sessions |-> Untracked]
    /\ wb = [s \in Sessions |-> -1]
    /\ cpc = [p \in Callers |-> "idle"]
    /\ carg = [p \in Callers |-> <<>>]
    /\ cret = [p \in Callers |-> <<>>]
    /\ calls = [p \in Callers |-> 0]
    /\ tool = NoCall
    /\ api = NoApi
    /\ other = NoTurn

NextDone ==
    \/ \E session_id \in Sessions, given \in BOOLEAN, content \in Inputs :
          BeginTurn(session_id, given, content)
    \/ Initialize
    \/ CollectBasicInfoStep
    \/ AskFollowupStep
    \/ StoreResponseStep
    \/ RaiseRecursionError
    \/ Tick

SpecDone == InitDone /\ [][NextDone]_vars

----------------------------------------------------------------------------
(* src/src/agents/tools.py: the priority of a question category and the    *)
(* parsing of a block of follow-up questions                               *)

Questions == <<" ", "Q", "u", "e", "s", "t", "i", "o", "n", "s">>

RedFlags ==
    <<"R", "e", "d", " ", "F", "l", "a", "g", "s">>

VitalSigns ==
    <<"V", "i", "t", "a", "l", " ", "S", "i", "g", "n", "s">>

SymptomDetails ==
    <<"S", "y", "m", "p", "t", "o", "m", " ", "D", "e", "t", "a", "i", "l",
      "s">>

MedicalHistory ==
    <<"M", "e", "d", "i", "c", "a", "l", " ", "H", "i", "s", "t", "o", "r",
      "y">>

PastMedicalHistory ==
    <<"P", "a", "s", "t", " ", "M", "e", "d", "i", "c", "a", "l", " ", "H",
      "i", "s", "t", "o", "r", "y">>

LifestyleRiskFactors ==
    <<"L", "i", "f", "e", "s", "t", "y", "l", "e", " ", "R", "i", "s", "k",
      " ", "F", "a", "c", "t", "o", "r", "s">>

Psychosocial ==
    <<"P", "s", "y", "c", "h", "o", "s", "o", "c", "i", "a", "l">>

\* priority_map, in the order of its keys
PriorityMap ==
    <<[key |-> RedFlags \o Questions, priority |-> 1],
      [key |-> VitalSigns \o Questions, priority |-> 2],
      [key |-> SymptomDetails \o Questions, priority |-> 3],
      [key |-> MedicalHistory \o Questions, priority |-> 4],
      [key |-> PastMedicalHistory \o Questions, priority |-> 5],
      [key |-> LifestyleRiskFactors \o Questions, priority |-> 6],
      [key |-> Psychosocial \o Questions, priority |-> 7]>>

DefaultPriority == 8

\* str.lower()
LowerStr(s) == [i \in DOMAIN s |-> Lower(s[i])]

\* str.upper()
UpperStr(s) ==
    [i \in DOMAIN s |->
        IF \E k \in DOMAIN Lowercase : Lowercase[k] = s[i]
        THEN Uppercase[CHOOSE k \in DOMAIN Lowercase : Lowercase[k] = s[i]]
        ELSE s[i]]

\* sub in text
Contains(sub, text) ==
    \E i \in 1..(Len(text) - Len(sub) + 1) :
        \A k \in 1..Len(sub) : text[i + k - 1] = sub[k]

\* str.split(): the runs of characters between blanks
RECURSIVE WordsAcc(_, _, _)
WordsAcc(s, cur, acc) ==
    IF s = <<>> THEN (IF cur = <<>> THEN acc ELSE Append(acc, cur))
    ELSE IF IsSpace(Head(s))
         THEN WordsAcc(Tail(s), <<>>, IF cur = <<>> THEN acc ELSE Append(acc, cur))
         ELSE WordsAcc(Tail(s), Append(cur, Head(s)), acc)

Words(s) == WordsAcc(s, <<>>, <<>>)

\* any(word in category.lower() for word in key.lower().split())
KeyMatches(key, category) ==
    LET words == Words(LowerStr(key))
    IN  \E w \in DOMAIN words : Contains(words[w], LowerStr(category))

\* get_question_priority
GetQuestionPriority(category) ==
    LET hits == {i \in DOMAIN PriorityMap : KeyMatches(PriorityMap[i].key, category)}
    IN  IF hits = {} THEN DefaultPriority
        ELSE PriorityMap[CHOOSE i \in hits : \A j \in hits : i <= j].priority

KwSymptomDetails ==
    <<"s", "y", "m", "p", "t", "o", "m", " ", "d", "e", "t", "a", "i", "l",
      "s">>

KwVitalSigns ==
    <<"v", "i", "t", "a", "l", " ", "s", "i", "g", "n", "s">>

KwMedicalHistory ==
    <<"m", "e", "d", "i", "c", "a", "l", " ", "h", "i", "s", "t", "o", "r",
      "y">>

KwRedFlags ==
    <<"r", "e", "d", " ", "f", "l", "a", "g", "s">>

KwLifestyle ==
    <<"l", "i", "f", "e", "s", "t", "y", "l", "e">>

KwPsychosocial ==
    <<"p", "s", "y", "c", "h", "o", "s", "o", "c", "i", "a", "l">>

\* the keywords of a category header
Keywords ==
    {KwSymptomDetails, KwVitalSigns, KwMedicalHistory, KwRedFlags, KwLifestyle,
     KwPsychosocial}

Bullet == "bullet"      \* the character U+2022

\* the characters of the texts, in code point order
CodePoints ==
    <<"\n", " ", "-", ".", "0", "1", "2", "3", "4", "5", "6", "7", "8", "9",
      ":", "?">> \o Uppercase \o Lowercase \o <<Bullet>>

Ord(c) == CHOOSE i \in DOMAIN CodePoints : CodePoints[i] = c

\* a < b, of strings
RECURSIVE StrLess(_, _)
StrLess(a, b) ==
    IF b = <<>> THEN FALSE
    ELSE IF a = <<>> THEN TRUE
    ELSE IF Head(a) = Head(b) THEN StrLess(Tail(a), Tail(b))
    ELSE Ord(Head(a)) < Ord(Head(b))

\* content.split('\n'): the places where a line starts, the place where the
\* line starting at a ends, and the lines in their order
LineStarts(content) ==
    {a \in 1..(Len(content) + 1) : a = 1 \/ content[a - 1] = "\n"}

LineEnd(content, a) ==
    CHOOSE e \in (a - 1)..Len(content) :
        /\ e = Len(content) \/ content[e + 1] = "\n"
        /\ \A k \in a..e : content[k] # "\n"

SplitLines(content) ==
    LET starts == LineStarts(content)
    IN  [n \in 1..Cardinality(starts) |->
            LET a == CHOOSE b \in starts : Cardinality({c \in starts : c <= b}) = n
            IN  SubSeq(content, a, LineEnd(content, a))]

EndsWith(s, c) == s # <<>> /\ s[Len(s)] = c

StartsWith(s, prefix) ==
    Len(s) >= Len(prefix) /\ SubSeq(s, 1, Len(prefix)) = prefix

\* line.rstrip(':')
RECURSIVE RStripColon(_)
RStripColon(s) ==
    IF EndsWith(s, ":") THEN RStripColon(SubSeq(s, 1, Len(s) - 1)) ELSE s

IsDigit(c) == c \in {"0", "1", "2", "3", "4", "5", "6", "7", "8", "9"}

\* the number of digits the text starts with
RECURSIVE LeadingDigits(_)
LeadingDigits(s) ==
    IF s # <<>> /\ IsDigit(Head(s)) THEN 1 + LeadingDigits(Tail(s)) ELSE 0

\* re.sub(r'^\d+\.\s*', '', line)
SubNumber(line) ==
    LET d == LeadingDigits(line)
    IN  IF d >= 1 /\ Len(line) > d /\ line[d + 1] = "."
        THEN LStrip(SubSeq(line, d + 2, Len(line))) ELSE line

\* re.sub(r'^[-\u2022]\s*', '', question)
SubBullet(question) ==
    IF question # <<>> /\ Head(question) \in {"-", Bullet}
    THEN LStrip(Tail(question)) ELSE question

\* line.endswith(':') and any(keyword in line.lower() for keyword in [...])
IsHeader(line) ==
    EndsWith(line, ":") /\ \E k \in Keywords : Contains(k, LowerStr(line))

\* line.startswith(('1.', '2.', '3.', '4.', '5.', '-', bullet)) or
\* line.endswith('?')
IsQuestionLine(line) ==
    \/ \E d \in {"1", "2", "3", "4", "5"} : StartsWith(line, <<d, ".">>)
    \/ StartsWith(line, <<"-">>)
    \/ StartsWith(line, <<Bullet>>)
    \/ EndsWith(line, "?")

MinQuestionLen == 10    \* len(question) > 10

\* questions_by_category.setdefault(current_category, []): a repeated header
\* keeps the list it finds
ResetKeeping(qbc, category) ==
    IF \E i \in DOMAIN qbc : qbc[i].category = category
    THEN qbc
    ELSE Append(qbc, [category |-> category, questions |-> <<>>])

\* questions_by_category[current_category] = []: a dictionary keeps the place
\* of a key it already has
ResetCategory(qbc, category) ==
    IF \E i \in DOMAIN qbc : qbc[i].category = category
    THEN [i \in DOMAIN qbc |->
            IF qbc[i].category = category
            THEN [category |-> category, questions |-> <<>>] ELSE qbc[i]]
    ELSE Append(qbc, [category |-> category, questions |-> <<>>])

\* questions_by_category[current_category].append({...})
AppendQuestion(qbc, category, text) ==
    [i \in DOMAIN qbc |->
        IF qbc[i].category = category
        THEN [qbc[i] EXCEPT !.questions =
                 Append(@, [text |-> text, category |-> category,
                            priority |-> GetQuestionPriority(category)])]
        ELSE qbc[i]]

\* the loop over the lines; current is <<>> while current_category is None
RECURSIVE ParseLines(_, _, _)
ParseLines(lines, qbc, current) ==
    IF lines = <<>> THEN qbc
    ELSE LET line == Strip(Head(lines))
             question == Strip(SubBullet(SubNumber(line)))
         IN  IF IsHeader(line)
             THEN ParseLines(Tail(lines), ResetCategory(qbc, RStripColon(line)),
                             RStripColon(line))
             ELSE IF /\ current # <<>>
                     /\ IsQuestionLine(line)
                     /\ Len(question) > MinQuestionLen
             THEN ParseLines(Tail(lines), AppendQuestion(qbc, current, question),
                             current)
             ELSE ParseLines(Tail(lines), qbc, current)

\* (x.get("priority", 8), x.get("category", "")) of a before that of b
KeyLess(a, b) ==
    \/ a.priority < b.priority
    \/ a.priority = b.priority /\ StrLess(a.category, b.category)

\* list.sort(key=...): stable, an element goes behind the equal ones
RECURSIVE SortInsert(_, _)
SortInsert(sorted, x) ==
    IF sorted = <<>> THEN <<x>>
    ELSE IF KeyLess(x, Head(sorted)) THEN <<x>> \o sorted
    ELSE <<Head(sorted)>> \o SortInsert(Tail(sorted), x)

RECURSIVE SortByKey(_, _)
SortByKey(list, sorted) ==
    IF list = <<>> THEN sorted
    ELSE SortByKey(Tail(list), SortInsert(sorted, Head(list)))

RECURSIVE Flatten(_)
Flatten(qbc) ==
    IF qbc = <<>> THEN <<>> ELSE Head(qbc).questions \o Flatten(Tail(qbc))

\* get_prioritized_questions without its sort: the questions in dictionary order
PrioritizedUnsorted(qbc) == Flatten(qbc)

\* get_prioritized_questions
GetPrioritizedQuestions(qbc) == SortByKey(Flatten(qbc), <<>>)

RECURSIVE SumLen(_)
SumLen(qbc) ==
    IF qbc = <<>> THEN 0 ELSE Len(Head(qbc).questions) + SumLen(Tail(qbc))

\* parse_symptom_questions
ParseSymptomQuestions(content, symptom) ==
    LET questions_by_category == ParseLines(SplitLines(content), <<>>, <<>>)
    IN  [symptom |-> symptom,
         total_questions |-> SumLen(questions_by_category),
         categories |-> [i \in DOMAIN questions_by_category |->
                            questions_by_category[i].category],
         questions_by_category |-> questions_by_category,
         prioritized_questions |-> GetPrioritizedQuestions(questions_by_category)]

(* The calls tried *)

RedHeader ==
    <<"R", "e", "d", " ", "F", "l", "a", "g", "s", " ", "Q", "u", "e", "s",
      "t", "i", "o", "n", "s", ":">>

LifeHeader ==
    <<"L", "i", "f", "e", "s", "t", "y", "l", "e", " ", "Q", "u", "e", "s",
      "t", "i", "o", "n", "s", ":">>

Preamble ==
    <<"S", "y", "m", "p", "t", "o", "m", ":", " ", "c", "o", "u", "g", "h">>

NumberedQuestion ==
    <<"1", ".", " ", "A", "n", "y", " ", "c", "h", "e", "s", "t", " ", "p",
      "a", "i", "n", " ", "n", "o", "w", "?">>

DashQuestion ==
    <<" ", "-", " ", "I", "s", " ", "i", "t", " ", "s", "e", "v", "e", "r",
      "e", " ", "t", "o", "d", "a", "y", "?">>

PlainQuestion ==
    <<"D", "o", " ", "y", "o", "u", " ", "s", "m", "o", "k", "e", " ", "d",
      "a", "i", "l", "y", "?">>

PaddedQuestion ==
    <<"2", ".", " ", " ", "A", "n", "y", " ", "a", "l", "c", "o", "h", "o",
      "l", " ", "u", "s", "e", "?">>

ShortQuestion ==
    <<"-", " ", "W", "h", "y", "?">>

Other ==
    <<"O", "t", "h", "e", "r">>

Allergies ==
    <<"A", "l", "l", "e", "r", "g", "i", "e", "s">>

CategoryNames ==
    {RedFlags, VitalSigns, SymptomDetails, MedicalHistory, PastMedicalHistory,
     LifestyleRiskFactors, Psychosocial, Other, Allergies}

\* each name with and without ' Questions', as written, in lower case and in
\* upper case
CategoryInputs ==
    UNION {{name \o suffix, LowerStr(name \o suffix), UpperStr(name \o suffix)} :
              name \in CategoryNames, suffix \in {<<>>, Questions}}

RECURSIVE JoinLines(_)
JoinLines(lines) ==
    IF lines = <<>> THEN <<>>
    ELSE IF Len(lines) = 1 THEN Head(lines)
    ELSE Head(lines) \o <<"\n">> \o JoinLines(Tail(lines))

RedSections ==
    {<<RedHeader, NumberedQuestion>>,
     <<RedHeader, NumberedQuestion, DashQuestion>>}

LifeSections ==
    {<<LifeHeader, PlainQuestion>>,
     <<LifeHeader, PaddedQuestion, ShortQuestion, PlainQuestion>>}

\* the two categories in either order, with or without a line before them
Blocks ==
    {JoinLines(before \o first \o second) :
        before \in {<<>>, <<Preamble>>},
        first \in RedSections \cup LifeSections,
        second \in RedSections \cup LifeSections}

VitalHeader ==
    <<"V", "i", "t", "a", "l", " ", "S", "i", "g", "n", "s", ":">>

LifestyleOnly ==
    <<"L", "i", "f", "e", "s", "t", "y", "l", "e", ":">>

Sections ==
    {<<RedHeader, NumberedQuestion>>,
     <<LifestyleOnly, PlainQuestion, PaddedQuestion>>,
     <<VitalHeader, DashQuestion, ShortQuestion, NumberedQuestion>>,
     <<RedHeader>>,
     <<>>}

\* up to three sections, a header possibly more than once, with or without a
\* question line before the first header
RepeatedBlocks ==
    {JoinLines(lead \o first \o second \o third) :
        lead \in {<<>>, <<PlainQuestion>>},
        first \in Sections, second \in Sections, third \in Sections}

Cough == <<"c", "o", "u", "g", "h">>

\* get_symptom_followup_questions_func.  The retriever either raises or
\* gives documents; a document has the metadata keys type and symptom (None
\* when the value stored under the key is None, the empty string when the
\* key is absent) and its page_content.

SymptomWord ==
    <<"s", "y", "m", "p", "t", "o", "m">>

CoughTitle ==
    <<"S", "y", "m", "p", "t", "o", "m", ":", " ", "C", "O", "U", "G", "H">>

FeverTitle ==
    <<"A", "s", "s", "e", "s", "s", "m", "e", "n", "t", " ", "o", "f", " ",
      "f", "e", "v", "e", "r">>

CoughName ==
    <<"C", "o", "u", "g", "h", " ", "(", "d", "r", "y", ")">>

FeverName ==
    <<"F", "e", "v", "e", "r">>

MedicalSymptom == "medical_symptom"

DocByMetadata ==
    [type |-> MedicalSymptom, symptom |-> CoughName,
     page_content |-> JoinLines(<<RedHeader, NumberedQuestion>>)]

DocByContent ==
    [type |-> "document", symptom |-> <<>>,
     page_content |-> JoinLines(<<CoughTitle, LifeHeader, PlainQuestion>>)]

DocFever ==
    [type |-> MedicalSymptom, symptom |-> FeverName,
     page_content |-> JoinLines(<<FeverTitle, RedHeader, NumberedQuestion>>)]

DocNoSymptom ==
    [type |-> MedicalSymptom, symptom |-> None,
     page_content |-> JoinLines(<<CoughTitle, RedHeader, NumberedQuestion>>)]

\* what load_chroma_db() and retriever.invoke(query) do: raise, or return
\* documents
Retrievals ==
    {[raised |-> TRUE, documents |-> <<>>]}
    \cup {[raised |-> FALSE, documents |-> documents] :
             documents \in {<<>>, <<DocByMetadata>>, <<DocFever, DocByContent>>,
                            <<DocFever>>, <<DocNoSymptom>>,
                            <<DocFever, DocByMetadata, DocByContent>>}}

\* an exception that leaves the function
PropagatedException(symptom) == [raised |-> TRUE, value |-> <<>>]

\* except Exception as e: return json.dumps({"error": ..., "questions": []})
CaughtException(symptom) ==
    [raised |-> FALSE,
     value |-> [error |-> <<"Error retrieving questions for ", symptom>>,
                questions |-> <<>>]]

\* the test of the first filter; .lower() of None raises AttributeError
ByMetadata(doc, symptom) ==
    /\ doc.type = MedicalSymptom
    /\ Contains(LowerStr(symptom), LowerStr(doc.symptom))

\* the test of the fallback filter
ByContent(doc, symptom) ==
    /\ Contains(SymptomWord, LowerStr(doc.page_content))
    /\ Contains(LowerStr(symptom), LowerStr(doc.page_content))

\* the value returned, or the exception raised, by the call
GetSymptomFollowupQuestionsFunc(symptom, retrieval) ==
    IF retrieval.raised THEN CaughtException(symptom)
    ELSE LET documents == retrieval.documents
             First(doc) == ByMetadata(doc, symptom)
             Second(doc) == ByContent(doc, symptom)
         IN  IF \E i \in DOMAIN documents :
                    /\ documents[i].type = MedicalSymptom
                    /\ documents[i].symptom = None
             THEN CaughtException(symptom)
             ELSE LET medical_docs ==
                          IF SelectSeq(documents, First) # <<>>
                          THEN SelectSeq(documents, First)
                          ELSE SelectSeq(documents, Second)
                  IN  IF medical_docs # <<>>
                      THEN [raised |-> FALSE,
                            value |-> ParseSymptomQuestions(
                                          medical_docs[1].page_content, symptom)]
                      ELSE [raised |-> FALSE,
                            value |-> [symptom |-> symptom,
                                       questions |-> <<>>,
                                       message |-> <<"No specific follow-up questions found for ", symptom>>]]

\* scripts/setup_medical_system.py, process_medical_symptoms_json: the page a
\* symptom of the JSON file is rendered to.  follow_up_questions is a
\* dictionary; it is the sequence of its items here, in its order.

SeparatorLen == 40      \* "-" * 40
RuleLen == 60           \* "=" * 60

Repeat(c, n) == [i \in 1..n |-> c]

\* str.upper() of one character
Upper(c) ==
    IF \E i \in DOMAIN Lowercase : Lowercase[i] = c
    THEN Uppercase[CHOOSE i \in DOMAIN Lowercase : Lowercase[i] = c]
    ELSE c

IsLetter(c) ==
    \E i \in DOMAIN Lowercase : c = Lowercase[i] \/ c = Uppercase[i]

\* str.title(): a letter after a character that is no letter in upper case,
\* every other letter in lower case
Title(s) ==
    [i \in DOMAIN s |->
        IF i = 1 \/ ~IsLetter(s[i - 1]) THEN Upper(s[i]) ELSE Lower(s[i])]

\* category.replace("_", " ")
ReplaceUnderscore(s) == [i \in DOMAIN s |-> IF s[i] = "_" THEN " " ELSE s[i]]

\* str(i) for the positions enumerate(questions, 1) counts here
DecimalOf(i) == <<"1", "2", "3", "4", "5", "6", "7", "8", "9">>[i]

MedicalSymptomPrefix ==
    <<"M", "e", "d", "i", "c", "a", "l", " ", "S", "y", "m", "p", "t", "o",
      "m", ":", " ">>

SearchableKeywords ==
    <<"S", "e", "a", "r", "c", "h", "a", "b", "l", "e", " ", "K", "e", "y",
      "w", "o", "r", "d", "s", ":">>

\* the parts appended for one category: its title, the rule under it, the
\* numbered questions and an empty part
CategoryParts(category, questions) ==
    << <<"\n">> \o Title(ReplaceUnderscore(category)) \o Questions \o <<":">>,
       Repeat("-", SeparatorLen) >>
    \o [i \in DOMAIN questions |-> <<DecimalOf(i), ".", " ">> \o questions[i]]
    \o << <<>> >>

RECURSIVE AllCategoryParts(_)
AllCategoryParts(items) ==
    IF items = <<>> THEN <<>>
    ELSE CategoryParts(Head(items).category, Head(items).questions)
             \o AllCategoryParts(Tail(items))

\* ", ".join(keywords)
RECURSIVE JoinComma(_)
JoinComma(words) ==
    IF words = <<>> THEN <<>>
    ELSE IF Len(words) = 1 THEN Head(words)
    ELSE Head(words) \o <<",", " ">> \o JoinComma(Tail(words))

\* "\n".join(content_parts)
RECURSIVE JoinParts(_)
JoinParts(parts) ==
    IF parts = <<>> THEN <<>>
    ELSE IF Len(parts) = 1 THEN Head(parts)
    ELSE Head(parts) \o <<"\n">> \o JoinParts(Tail(parts))

\* the Document made of one item of the JSON file
ProcessMedicalSymptomsJson(item) ==
    LET symptom == item.symptom
        follow_up_questions == item.follow_up_questions
        keywords == <<LowerStr(symptom)>> \o
                    [i \in DOMAIN follow_up_questions |->
                        ReplaceUnderscore(follow_up_questions[i].category)]
        content_parts ==
            <<MedicalSymptomPrefix \o symptom, Repeat("=", RuleLen)>>
            \o AllCategoryParts(follow_up_questions)
            \o << <<"\n">> \o SearchableKeywords, JoinComma(keywords) >>
    IN  [page_content |-> JoinParts(content_parts),
         metadata |-> [symptom |-> symptom, type |-> MedicalSymptom,
                       categories |-> [i \in DOMAIN follow_up_questions |->
                                          follow_up_questions[i].category],
                       total_questions |-> SumLen(follow_up_questions)]]

(* The items tried: the categories of the JSON file in snake case, one     *)
(* whose title holds no category keyword of the parser, with one or two    *)
(* questions each, one of them short                                       *)

KeyRedFlags ==
    <<"r", "e", "d", "_", "f", "l", "a", "g", "s">>

KeyLifestyle ==
    <<"l", "i", "f", "e", "s", "t", "y", "l", "e">>

KeyAllergies ==
    <<"a", "l", "l", "e", "r", "g", "i", "e", "s">>

ChestPain ==
    <<"A", "n", "y", " ", "c", "h", "e", "s", "t", " ", "p", "a", "i", "n",
      " ", "n", "o", "w", "?">>

SmokeDaily ==
    <<"D", "o", " ", "y", "o", "u", " ", "s", "m", "o", "k", "e", " ", "d",
      "a", "i", "l", "y", "?">>

Why ==
    <<"W", "h", "y", "?">>

DrugAllergy ==
    <<"A", "n", "y", " ", "a", "l", "l", "e", "r", "g", "i", "e", "s", " ",
      "t", "o", " ", "d", "r", "u", "g", "s", "?">>

ItemCategories ==
    {[category |-> KeyRedFlags, questions |-> <<ChestPain>>],
     [category |-> KeyLifestyle, questions |-> <<SmokeDaily, Why>>],
     [category |-> KeyLifestyle, questions |-> <<>>],
     [category |-> KeyAllergies, questions |-> <<DrugAllergy>>]}

\* no, one or two categories, each key once
JsonItems ==
    {[symptom |-> Cough, follow_up_questions |-> fq] :
        fq \in {<<>>} \cup {<<c>> : c \in ItemCategories}
                \cup {pair \in ItemCategories \X ItemCategories :
                         pair[1].category # pair[2].category}}

InitTools ==
    /\ clock = 0
    /\ tool \in {[fn |-> "get_question_priority", arg |-> category,
                   ret |-> <<>>, done |-> FALSE] : category \in CategoryInputs}
              \cup {[fn |-> "parse_symptom_questions", arg |-> content,
                     ret |-> <<>>, done |-> FALSE] :
                        content \in Blocks \cup RepeatedBlocks}
              \cup {[fn |-> "get_symptom_followup_questions", arg |-> retrieval,
                     ret |-> <<>>, done |-> FALSE] : retrieval \in Retrievals}
              \cup {[fn |-> "process_medical_symptoms_json", arg |-> item,
                     ret |-> <<>>, done |-> FALSE] : item \in JsonItems}
    /\ consultations = <<>>
    /\ responses = <<>>
    /\ summaries = <<>>
    /\ pre = EmptyStore
    /\ pc = "idle"
    /\ st = Idle
    /\ steps = 0
    /\ visited = [s \in Sessions |-> Untracked]
    /\ wb = [s \in Sessions |-> -1]
    /\ cpc = [p \in Callers |-> "idle"]
    /\ carg = [p \in Callers |-> <<>>]
    /\ cret = [p \in Callers |-> <<>>]
    /\ calls = [p \in Callers |-> 0]
    /\ api = NoApi
    /\ other = NoTurn

CallGetQuestionPriority ==
    /\ tool.fn = "get_question_priority"
    /\ ~tool.done
    /\ tool' = [tool EXCEPT !.ret = GetQuestionPriority(tool.arg), !.done = TRUE]
    /\ UNCHANGED <<storeVars, turnVars, callerVars, clock, api, other>>

CallParseSymptomQuestions ==
    /\ tool.fn = "parse_symptom_questions"
    /\ ~tool.done
    /\ tool' = [tool EXCEPT !.ret = ParseSymptomQuestions(tool.arg, Cough),
                            !.done = TRUE]
    /\ UNCHANGED <<storeVars, turnVars, callerVars, clock, api, other>>

CallGetSymptomFollowupQuestions ==
    /\ tool.fn = "get_symptom_followup_questions"
    /\ ~tool.done
    /\ tool' = [tool EXCEPT !.ret = GetSymptomFollowupQuestionsFunc(Cough, tool.arg),
                            !.done = TRUE]
    /\ UNCHANGED <<storeVars, turnVars, callerVars, clock, api, other>>

\* the page of an item is rendered and handed to parse_symptom_questions,
\* as the page_content of the document retrieved for the symptom is
CallProcessMedicalSymptomsJson ==
    /\ tool.fn = "process_medical_symptoms_json"
    /\ ~tool.done
    /\ tool' = [fn |-> "parse_symptom_questions",
                arg |-> ProcessMedicalSymptomsJson(tool.arg).page_content,
                ret |-> <<>>, done |-> FALSE, item |-> tool.arg]
    /\ UNCHANGED <<storeVars, turnVars, callerVars, clock, api, other>>

NextTools ==
    \/ CallGetQuestionPriority
    \/ CallParseSymptomQuestions
    \/ CallGetSymptomFollowupQuestions
    \/ CallProcessMedicalSymptomsJson

SpecTools == InitTools /\ [][NextTools]_vars

----------------------------------------------------------------------------
(* Properties *)

Row(db, session_id) ==
    db.consultations[CHOOSE i \in RowsOf(db.consultations, session_id) : TRUE]

ResponsesOf(db, session_id) ==
    LET Mine(row) == row.session_id = session_id
    IN  SelectSeq(db.responses, Mine)

QuestionsIn(messages) == {i \in DOMAIN messages : messages[i].kind = "question"}

AIMessagesIn(messages) == {i \in DOMAIN messages : messages[i].type = "ai"}

TurnInput == st.messages[1].content

TurnEnded == pc \in {"END", "GraphRecursionError", "ValueError"}

IsPrefix(s, full) == Len(s) <= Len(full) /\ \A i \in DOMAIN s : s[i] = full[i]

\* the place of a question in a template list, counted from 0
PositionIn(questions, text) ==
    (CHOOSE i \in DOMAIN questions : questions[i] = text) - 1

\* C1: while the user is well-behaved, the stages the state of a session
\* created in this run holds are
\* GREETING, COLLECTING_BASIC_INFO, COLLECTING_SYMPTOMS,
\* ASKING_FOLLOWUP_QUESTIONS, SUMMARY, COMPLETED in that order, none skipped
\* and none entered again, and all six once the well-behaved user has had
\* every turn.
C1_StagesInOrder ==
    \A s \in Sessions :
        (visited[s] # Untracked /\ wb[s] >= 0) =>
            /\ IsPrefix(visited[s], ConsultationStage)
            /\ (wb[s] = ScriptLen /\ TurnOver) => visited[s] = ConsultationStage

\* C2: a turn that has stopped has reached END; the graph runtime never has
\* to stop it at the recursion limit.
C2_TurnReachesEnd == TurnOver /\ pc # "idle" => pc = "END"

\* C3: when the well-behaved user has had every turn of the script on a
\* session created in this run (first message, name, e-mail, symptoms, five
\* answers), the stored consultation is COMPLETED and completed is true.
C3_ScriptCompletes ==
    \A s \in Sessions :
        (wb[s] = ScriptLen /\ TurnOver) =>
            /\ HasRow(Store, s)
            /\ Row(Store, s).consultation_stage = COMPLETED
            /\ Row(Store, s).completed

\* C4: a turn that began on a session in the follow-up stage with a question
\* asked has, when it is over, added exactly one response row of the session:
\* the user's text, the question last asked, its symptom, 'symptom_details'.
C4_AnswerStored ==
    LET s == st.session_id
    IN  (TurnEnded /\ HasRow(pre, s)) =>
            LET old == Row(pre, s)
                symptoms == JsonLoads(old.symptoms_reported)
                before == ResponsesOf(pre, s)
                after == ResponsesOf(Store, s)
            IN  ( /\ old.consultation_stage = ASKING_FOLLOWUP_QUESTIONS
                  /\ old.current_question_index >= 1
                  /\ old.current_symptom_index < Len(symptoms) ) =>
                    /\ Len(after) = Len(before) + 1
                    /\ after[Len(after)].response_text = TurnInput
                    /\ after[Len(after)].question_text =
                          StandardQuestions(symptoms[old.current_symptom_index + 1])
                              [old.current_question_index]
                    /\ after[Len(after)].symptom_name =
                          symptoms[old.current_symptom_index + 1]
                    /\ after[Len(after)].question_category = <<"symptom_details">>

\* C5: the messages of one turn hold at most one follow-up question.
C5_OneQuestionPerTurn == Cardinality(QuestionsIn(st.messages)) <= 1

\* C6: no stored cursor passes five, no turn emits more than five questions,
\* and when a turn with a non-empty symptom list reaches the summary the
\* questions asked before the turn and in it are five in all, however many
\* symptoms there are.
C6_FiveQuestionsInAll ==
    LET s == st.session_id
        asked_before == IF HasRow(pre, s) THEN Row(pre, s).current_question_index
                        ELSE 0
    IN  /\ \A i \in DOMAIN consultations :
              consultations[i].current_question_index <= QuestionCap
        /\ Cardinality(QuestionsIn(st.messages)) <= QuestionCap
        /\ (pc = "END" /\ NonEmpty(st.patient_data.symptoms)) =>
              asked_before + Cardinality(QuestionsIn(st.messages)) = QuestionCap

C6_Witness ==
    /\ pc = "END"
    /\ Len(st.patient_data.symptoms) = 2
    /\ Cardinality(QuestionsIn(st.messages)) = QuestionCap

\* C7 as stated: for every response store_response has saved, whatever the
\* cursor was, the question index in its question_id is the place of its
\* question_text in the template.
C7_IdMatchesTextAnyIndex ==
    \A i \in DOMAIN responses :
        responses[i].question_id[3] =
            PositionIn(StandardQuestionsOfStore(responses[i].symptom_name),
                       responses[i].question_text)

\* C7 amended: when store_response saves a response with the cursor between 1
\* and 5, the values ask_followup_questions leaves, its question_id is
\* q_{symptom index}_{cursor - 1}, that index is the place of its
\* question_text in the template, and the text is the question
\* ask_followup_questions emits for that symptom index and question index.
C7_IdMatchesTextInRange ==
    (responses # <<>> /\ st.current_question_index \in 1..NumQuestions) =>
        LET r == responses[Len(responses)]
            asked == AskFollowupQuestions(
                         [st EXCEPT !.current_question_index = @ - 1,
                                    !.messages = <<>>], Store).state
        IN  /\ r.question_id =
                  QuestionId(st.current_symptom_index, st.current_question_index - 1)
            /\ r.question_id[3] =
                  PositionIn(StandardQuestionsOfStore(r.symptom_name), r.question_text)
            /\ asked.messages[1].kind = "question"
            /\ asked.messages[1].content = r.question_text

C7_Witness ==
    /\ responses # <<>>
    /\ st.current_question_index \in 1..NumQuestions
    /\ st.current_symptom_index = 1

\* C8: a turn on a session in COLLECTING_BASIC_INFO with the name set, the
\* e-mail unset and an input that is no e-mail address, or in
\* COLLECTING_BASIC_INFO or COLLECTING_SYMPTOMS with a blank input, ends
\* without an error, with one message (the re-prompt), the stage kept and the
\* store as it was.
C8_RepromptOnly ==
    LET s == st.session_id
    IN  (TurnEnded /\ HasRow(pre, s)) =>
            LET old == Row(pre, s)
                bad_email ==
                    /\ old.consultation_stage = COLLECTING_BASIC_INFO
                    /\ Truthy(old.patient_name)
                    /\ ~Truthy(old.patient_email)
                    /\ ~EmailMatch(Strip(TurnInput))
                blank ==
                    /\ old.consultation_stage \in
                          {COLLECTING_BASIC_INFO, COLLECTING_SYMPTOMS}
                    /\ Strip(TurnInput) = <<>>
            IN  (bad_email \/ blank) =>
                    /\ pc = "END"
                    /\ Store = pre
                    /\ st.consultation_stage = old.consultation_stage
                    /\ Cardinality(AIMessagesIn(st.messages)) = 1

\* C9: a session never has two consultation rows, whatever the interleaving
\* of the callers; once a call for a session has returned or raised the
\* session has exactly one row; and every value a call returns equals, field
\* by field, the stored row, so that a second call returns what the first did.
C9_GetOrCreateIdempotent ==
    /\ \A s \in Sessions : Cardinality(RowsOf(consultations, s)) <= 1
    /\ \A p \in Callers :
          cret[p] # <<>> =>
              /\ Cardinality(RowsOf(consultations, carg[p][1])) = 1
              /\ ~cret[p][1].raised =>
                    \A k \in DOMAIN cret[p][1].data :
                        cret[p][1].data[k] = Row(Store, carg[p][1])[k]

C9_Witness ==
    \E p, q \in Callers :
        /\ cret[p] # <<>> /\ cret[q] # <<>>
        /\ ~cret[p][1].raised /\ ~cret[q][1].raised
        /\ carg[p][1] = carg[q][1]
        /\ carg[p][2] # carg[q][2]
        /\ "id" \notin DOMAIN cret[p][1].data
        /\ "id" \in DOMAIN cret[q][1].data

StoreNext == [consultations |-> consultations', responses |-> responses',
              summaries |-> summaries']

\* C11: no step of the state machine changes a patient_name, a patient_email
\* or a symptom list that is non-empty in the store, whatever the input of
\* the turn.
C11_SetOnce ==
    [][\A s \in Sessions :
          HasRow(Store, s) =>
              LET old == Row(Store, s)
                  new == Row(StoreNext, s)
              IN  /\ HasRow(StoreNext, s)
                  /\ Truthy(old.patient_name) => new.patient_name = old.patient_name
                  /\ Truthy(old.patient_email) =>
                        new.patient_email = old.patient_email
                  /\ NonEmpty(JsonLoads(old.symptoms_reported)) =>
                        new.symptoms_reported = old.symptoms_reported]_vars

\* a turn with a non-blank input other than the stored name has ended on a
\* session that was collecting basic information with the name set
C11_Witness ==
    LET s == st.session_id
    IN  /\ TurnEnded
        /\ HasRow(pre, s)
        /\ Row(pre, s).consultation_stage = COLLECTING_BASIC_INFO
        /\ Truthy(Row(pre, s).patient_name)
        /\ Strip(TurnInput) # <<>>
        /\ Strip(TurnInput) # Row(pre, s).patient_name
        /\ Row(Store, s).patient_name = Row(pre, s).patient_name
        /\ Row(Store, s).patient_email = Strip(TurnInput)

\* C12: no step of the state machine lowers the stored current_symptom_index
\* or current_question_index of a session.
C12_CursorsNeverDecrease ==
    [][\A s \in Sessions :
          HasRow(Store, s) =>
              /\ HasRow(StoreNext, s)
              /\ Row(StoreNext, s).current_symptom_index >=
                    Row(Store, s).current_symptom_index
              /\ Row(StoreNext, s).current_question_index >=
                    Row(Store, s).current_question_index]_vars

\* a turn on a session with questions already asked has raised the cursor
C12_Witness ==
    LET s == st.session_id
    IN  /\ TurnEnded
        /\ HasRow(pre, s)
        /\ Row(pre, s).current_question_index >= 1
        /\ Row(Store, s).current_question_index >
              Row(pre, s).current_question_index

\* C13: every stored consultation with completed = true has stage COMPLETED.
C13_CompletedOnlyAtCompleted ==
    \A i \in DOMAIN consultations :
        consultations[i].completed =>
            consultations[i].consultation_stage = COMPLETED

\* a turn has completed a consultation that was not completed before it
C13_Witness ==
    LET s == st.session_id
    IN  /\ pc = "END"
        /\ HasRow(pre, s)
        /\ ~Row(pre, s).completed
        /\ Row(Store, s).completed

SummaryOf(db, session_id) ==
    LET Mine(row) == row.session_id = session_id
    IN  SelectSeq(db.summaries, Mine)

SummaryDone ==
    st.messages # <<>> /\ st.messages[Len(st.messages)].kind = "summary"

SevereUpper == <<"S", "E", "V", "E", "R", "E">>

\* the text holds the letters s, e, v, e, r, e in a row, each in either case
MentionsSevere(text) ==
    \E i \in 1..(Len(text) - 5) :
        \A k \in 1..6 : text[i + k - 1] \in {Severe[k], SevereUpper[k]}

\* the response rows of the session that mention severe
SevereRows(session_id) ==
    {i \in DOMAIN responses : /\ responses[i].session_id = session_id
                               /\ MentionsSevere(responses[i].response_text)}

C15_SummaryCompletes ==
    (SummaryDone \/ pc = "END") =>
        LET s == st.session_id
        IN  /\ Row(Store, s).completed
            /\ Row(Store, s).consultation_end_time # None
            /\ Row(Store, s).consultation_stage = COMPLETED
            /\ Len(SummaryOf(Store, s)) = 1
            /\ st.consultation_stage = COMPLETED
            /\ st.consultation_complete
            /\ pc = "END"

\* a turn has written the first summary of a session
C15_Witness ==
    LET s == st.session_id
    IN  /\ SummaryDone
        /\ HasRow(pre, s)
        /\ Row(pre, s).consultation_end_time = None
        /\ SummaryOf(pre, s) = <<>>
        /\ SummaryOf(Store, s) # <<>>
        /\ Cardinality(QuestionsIn(st.messages)) >= 1

\* the places where a comma-separated piece of the text starts
TokenStarts(text) ==
    {a \in 1..(Len(text) + 1) : a = 1 \/ text[a - 1] = ","}

\* the place where the piece starting at a ends
TokenEnd(text, a) ==
    CHOOSE e \in (a - 1)..Len(text) :
        /\ e = Len(text) \/ text[e + 1] = ","
        /\ \A k \in a..e : text[k] # ","

\* the characters of the text from a to e that are no blanks
Inked(text, a, e) == {k \in a..e : text[k] # " "}

\* the text from a to e without the blanks at its ends
Trimmed(text, a, e) ==
    LET ink == Inked(text, a, e)
    IN  SubSeq(text, CHOOSE k \in ink : \A j \in ink : k <= j,
                     CHOOSE k \in ink : \A j \in ink : k >= j)

\* the pieces that are not blank
KeptTokens(text) ==
    {a \in TokenStarts(text) : Inked(text, a, TokenEnd(text, a)) # {}}

\* list holds the non-blank pieces of the text, trimmed, in their order, or
\* the trimmed text when every piece is blank
IsSymptomList(list, text) ==
    LET kept == KeptTokens(text)
    IN  IF kept = {} THEN list = <<Trimmed(text, 1, Len(text))>>
        ELSE /\ Len(list) = Cardinality(kept)
             /\ \A a \in kept :
                   list[Cardinality({b \in kept : b <= a})] =
                       Trimmed(text, a, TokenEnd(text, a))

\* C16: in a turn on a session in COLLECTING_SYMPTOMS with no symptoms and a
\* non-blank input, once collect_basic_info has run the stored symptom list
\* is the trimmed non-blank comma-separated pieces of the input in order, or
\* the trimmed input when there is no such piece, it is not empty, and
\* collect_basic_info leaves the stage ASKING_FOLLOWUP_QUESTIONS in the state
\* and in the store.
C16_SymptomList ==
    LET s == st.session_id
    IN  ( /\ pc # "idle" /\ steps >= 2
          /\ HasRow(pre, s)
          /\ Row(pre, s).consultation_stage = COLLECTING_SYMPTOMS
          /\ JsonLoads(Row(pre, s).symptoms_reported) = <<>>
          /\ Strip(TurnInput) # <<>> ) =>
            LET stored == JsonLoads(Row(Store, s).symptoms_reported)
            IN  /\ IsSymptomList(stored, TurnInput)
                /\ stored # <<>>
                /\ \A i \in DOMAIN stored : stored[i] # <<>>
                /\ st.patient_data.symptoms = stored
                /\ steps = 2 =>
                      /\ pc = "ask_followup"
                      /\ st.consultation_stage = ASKING_FOLLOWUP_QUESTIONS
                      /\ Row(Store, s).consultation_stage =
                            ASKING_FOLLOWUP_QUESTIONS

\* collect_basic_info has stored three symptoms from a text with empty pieces
C16_Witness ==
    /\ pc = "ask_followup" /\ steps = 2
    /\ Row(pre, st.session_id).consultation_stage = COLLECTING_SYMPTOMS
    /\ TurnInput = EmptyTokens
    /\ JsonLoads(Row(Store, st.session_id).symptoms_reported) =
          << <<"b", " ", "c">>, <<"a">> >>

\* C17: in the prioritized_questions parse_symptom_questions returns for a
\* block with a 'Red Flags Questions:' and a 'Lifestyle Questions:' category,
\* in either order, every red-flag question stands before every lifestyle
\* question.
C17_RedFlagsFirst ==
    (tool.fn = "parse_symptom_questions" /\ tool.done) =>
        LET prioritized == tool.ret.prioritized_questions
        IN  \A i, j \in DOMAIN prioritized :
                ( /\ prioritized[i].category = RStripColon(RedHeader)
                  /\ prioritized[j].category = RStripColon(LifeHeader) ) => i < j

\* the seven category names of the table, by priority
TableNames ==
    <<RedFlags, VitalSigns, SymptomDetails, MedicalHistory, PastMedicalHistory,
      LifestyleRiskFactors, Psychosocial>>

\* the name without a trailing ' Questions' in any case
WithoutQuestions(name) ==
    IF /\ Len(name) >= Len(Questions)
       /\ LowerStr(SubSeq(name, Len(name) - Len(Questions) + 1, Len(name))) =
             LowerStr(Questions)
    THEN SubSeq(name, 1, Len(name) - Len(Questions)) ELSE name

TablePriority(name) ==
    LET base == LowerStr(WithoutQuestions(name))
        hits == {i \in DOMAIN TableNames : LowerStr(TableNames[i]) = base}
    IN  IF hits = {} THEN 8 ELSE CHOOSE i \in hits : TRUE

\* C18: get_question_priority gives Red Flags 1, Vital Signs 2, Symptom
\* Details 3, Medical History 4, Past Medical History 5, Lifestyle Risk
\* Factors 6 and Psychosocial 7, in any case and with or without a trailing
\* 'Questions', and 8 to every other name.
C18_PriorityTable ==
    (tool.fn = "get_question_priority" /\ tool.done) =>
        tool.ret = TablePriority(tool.arg)

\* C19: a turn on a consultation whose stored stage is none of GREETING,
\* COLLECTING_BASIC_INFO and COLLECTING_SYMPTOMS, be it SUMMARY, COMPLETED or
\* a text that is no stage, raises nothing: collect_basic_info sends it on
\* to ask_followup in stage ASKING_FOLLOWUP_QUESTIONS and the turn reaches
\* END.
C19_OtherStageAsFollowup ==
    LET s == st.session_id
    IN  ( /\ pc # "idle" /\ steps >= 1
          /\ HasRow(pre, s)
          /\ Row(pre, s).consultation_stage \notin
                {GREETING, COLLECTING_BASIC_INFO, COLLECTING_SYMPTOMS} ) =>
            /\ pc \notin {"ValueError", "GraphRecursionError"}
            /\ steps = 2 =>
                  /\ pc = "ask_followup"
                  /\ st.consultation_stage = ASKING_FOLLOWUP_QUESTIONS

\* C20: when a storage operation has failed in a turn, whichever operation
\* of the turn it was, the turn is over with the error and the store is as
\* it was when the turn began.
C20_NoPartialWrites == pc = "OperationalError" => Store = pre

----------------------------------------------------------------------------
(* Two turns in flight *)

\* the store a run of the graph leaves when no other run executes between
\* its nodes
RECURSIVE RunTurn(_, _, _, _)
RunTurn(node, state, db, n) ==
    IF node \notin Nodes \/ n >= RecursionLimit THEN db
    ELSE CASE node = "initialize" ->
                LET result == InitializeConsultation(state, db)
                IN  IF result.error THEN result.db
                    ELSE RunTurn("collect_basic_info", result.state,
                                 result.db, n + 1)
           [] node = "collect_basic_info" ->
                LET result == CollectBasicInfo(state, db)
                IN  RunTurn(RouteAfterBasicInfo(result.state), result.state,
                            result.db, n + 1)
           [] node = "ask_followup" ->
                LET result == AskFollowupQuestions(state, db)
                IN  RunTurn(RouteAfterFollowup(result.state), result.state,
                            result.db, n + 1)
           [] node = "store_response" ->
                LET result == StoreResponse(state, db)
                IN  RunTurn("ask_followup", result.state, result.db, n + 1)

\* the rows of a table that belong to a session, in their order, without the
\* row number the table gave them
RowsNoId(tbl, session_id) ==
    LET Mine(row) == row.session_id = session_id
        mine == SelectSeq(tbl, Mine)
    IN  [i \in DOMAIN mine |->
            [k \in DOMAIN mine[i] \ {"id"} |-> mine[i][k]]]

\* what the store holds for a session
SessionView(db, session_id) ==
    [consultations |-> RowsNoId(db.consultations, session_id),
     responses |-> RowsNoId(db.responses, session_id),
     summaries |-> RowsNoId(db.summaries, session_id)]

Ended(node) == node \in {"END", "GraphRecursionError", "ValueError"}

\* the store the turn would have left, had it run alone from the store it
\* began with
Alone(state, began) ==
    RunTurn("initialize",
            InputState(state.session_id, None, state.messages[1].content),
            began, 0)

\* C21: two turns on different sessions whose nodes interleave leave, for
\* each session, the rows its turn leaves when it runs alone from the store
\* it began with; the turn of one session changes no row of the other.
C21_SessionsIsolated ==
    /\ Ended(pc) =>
          SessionView(Store, st.session_id) =
              SessionView(Alone(st, pre), st.session_id)
    /\ Ended(other.pc) =>
          SessionView(Store, other.st.session_id) =
              SessionView(Alone(other.st, other.pre), other.st.session_id)

\* both turns are over; the second began between two writes of the first and
\* wrote to its own session
C21_Witness ==
    /\ Ended(pc) /\ Ended(other.pc)
    /\ st.session_id # other.st.session_id
    /\ SessionView(other.pre, st.session_id) # SessionView(pre, st.session_id)
    /\ SessionView(other.pre, st.session_id) # SessionView(Store, st.session_id)
    /\ SessionView(other.pre, other.st.session_id) #
           SessionView(Store, other.st.session_id)

\* the question cursor the store holds for a session
PersistedCursor(db, session_id) == Row(db, session_id).current_question_index

QuestionTexts(messages) ==
    {messages[i].content : i \in QuestionsIn(messages)}

\* C22: of two turns on one session whose nodes interleave, each writes the
\* cursor it loaded when it began plus the questions it has asked, whatever
\* the row holds by then: every change of the persisted
\* current_question_index is the in-memory cursor of the turn taking the
\* step plus one, so the write of the turn that is behind undoes the other's.
C22_StaleCursorWins ==
    [][\A s \in Sessions :
          ( /\ HasRow(Store, s) /\ HasRow(StoreNext, s)
            /\ PersistedCursor(StoreNext, s) # PersistedCursor(Store, s) ) =>
              \/ /\ st' # st
                 /\ st.session_id = s
                 /\ PersistedCursor(StoreNext, s) = st.current_question_index + 1
              \/ /\ other' # other
                 /\ other.st.session_id = s
                 /\ PersistedCursor(StoreNext, s) =
                       other.st.current_question_index + 1]_vars

\* the two turns are on one session, both have emitted the same follow-up
\* question, and the row's cursor is below the cursor one of them wrote
C22_Witness ==
    /\ pc # "idle" /\ other.pc # "idle"
    /\ st.session_id = other.st.session_id
    /\ QuestionTexts(st.messages) \cap QuestionTexts(other.st.messages) # {}
    /\ HasRow(Store, st.session_id)
    /\ \/ PersistedCursor(Store, st.session_id) < st.current_question_index
       \/ PersistedCursor(Store, st.session_id) < other.st.current_question_index

----------------------------------------------------------------------------
(* The store operations called directly *)

\* C23: every Response row refers to an existing Consultation row:
\* save_patient_response for a session that has no consultation row
\* persists nothing.
C23_ResponseHasConsultation ==
    \A i \in DOMAIN responses : HasRow(Store, responses[i].session_id)

\* the responses of a session as get_consultation_responses gives them, in
\* the order of the inserts
InSavedOrder(tbl, session_id) ==
    LET Mine(row) == row.session_id = session_id
        mine == SelectSeq(tbl, Mine)
    IN  [i \in DOMAIN mine |->
            [question |-> mine[i].question_text,
             response |-> mine[i].response_text,
             category |-> mine[i].question_category,
             symptom |-> mine[i].symptom_name]]

C25_SummaryUpsert ==
    /\ \A s \in Sessions : Cardinality(RowsOf(summaries, s)) <= 1
    /\ api.op = "save_consultation_summary" =>
          /\ SummaryOf(Store, api.session_id)[1].summary_text =
                api.args.summary_text
          /\ JsonLoads(SummaryOf(Store, api.session_id)[1].key_findings) =
                api.args.key_findings
          /\ \A s \in Sessions \ {api.session_id} :
                SummaryOf(Store, s) = SummaryOf(api.before, s)

\* the session had a summary with another text before the call
C25_Witness ==
    /\ api.op = "save_consultation_summary"
    /\ SummaryOf(api.before, api.session_id) # <<>>
    /\ SummaryOf(api.before, api.session_id)[1].summary_text #
          api.args.summary_text
    /\ \E s \in Sessions \ {api.session_id} : SummaryOf(Store, s) # <<>>

\* C26: update_consultation changes, in the row of the session, the
\* allow-listed columns named in the call and updated_at, and nothing else:
\* no other column, no row of another session, no response, no summary.  A
\* keyword outside the allow-list is ignored, a call that names no
\* allow-listed column changes nothing, and a session without a row gets
\* none.
C26_UpdateFrame ==
    api.op = "update_consultation" =>
        LET old == api.before.consultations
            set_clauses == DOMAIN api.args \cap AllowList
        IN  /\ Len(consultations) = Len(old)
            /\ \A i \in DOMAIN old :
                  IF old[i].session_id = api.session_id /\ set_clauses # {}
                  THEN \A k \in DOMAIN old[i] :
                          consultations[i][k] =
                              IF k \in set_clauses THEN api.args[k]
                              ELSE IF k = "updated_at" THEN api.at
                              ELSE old[i][k]
                  ELSE consultations[i] = old[i]
            /\ responses = api.before.responses
            /\ summaries = api.before.summaries

\* the call named an allow-listed column and one outside the list, on a
\* session with a row, a second later than the row's last update, while the
\* other session had a row too
C26_Witness ==
    /\ api.op = "update_consultation"
    /\ DOMAIN api.args \cap AllowList # {}
    /\ DOMAIN api.args \ AllowList # {}
    /\ HasRow(api.before, api.session_id)
    /\ Row(api.before, api.session_id).updated_at # api.at
    /\ \E s \in Sessions \ {api.session_id} : HasRow(Store, s)

\* C27: get_or_create_consultation returns, for every allow-listed column
\* that update_consultation has set for the session, the value of the most
\* recent update that set it; a symptom list stored as json.dumps wrote it
\* reads back through json.loads as the same list in the same order.
C27_ReadBack ==
    api.op = "get_or_create_consultation" =>
        LET latest == Latest(api.session_id)
        IN  /\ \A k \in DOMAIN latest : api.ret[k] = latest[k]
            /\ \A list \in SymptomLists :
                  ( /\ "symptoms_reported" \in DOMAIN latest
                    /\ latest.symptoms_reported = JsonDumps(list) ) =>
                      /\ JsonWellFormed(api.ret.symptoms_reported)
                      /\ JsonLoads(api.ret.symptoms_reported) = list

\* the name the row held was replaced and the symptom list with a quote, a
\* backslash, a comma and a newline in its items was stored, before the read
C27_Witness ==
    /\ api.op = "get_or_create_consultation"
    /\ LET latest == Latest(api.session_id)
       IN  /\ {"patient_name", "symptoms_reported"} \subseteq DOMAIN latest
           /\ latest.patient_name # Row(pre, api.session_id).patient_name
           /\ latest.symptoms_reported = JsonDumps(AwkwardList)

\* C28: the responses are insert-only: save_patient_response adds exactly
\* one row, with the values of the call, after the rows there were, and no
\* operation changes or removes a row that was there.
C28_ResponsesInsertOnly ==
    api.op # "none" =>
        IF api.op = "save_patient_response"
        THEN /\ Len(responses) = Len(api.before.responses) + 1
             /\ IsPrefix(api.before.responses, responses)
             /\ responses[Len(responses)].session_id = api.session_id
             /\ responses[Len(responses)].response_text = api.args
        ELSE responses = api.before.responses

\* a response was saved for a session and a question that had one already
C28_Witness ==
    /\ api.op = "save_patient_response"
    /\ \E i \in DOMAIN api.before.responses :
          /\ api.before.responses[i].session_id = api.session_id
          /\ api.before.responses[i].question_id =
                responses[Len(responses)].question_id
          /\ api.before.responses[i].response_text # api.args

----------------------------------------------------------------------------
(* get_symptom_followup_questions *)

\* some document passes the first or the fallback filter
SomeDocumentMatches(documents, symptom) ==
    \E i \in DOMAIN documents :
        \/ /\ documents[i].type = MedicalSymptom
           /\ Contains(LowerStr(symptom), LowerStr(documents[i].symptom))
        \/ /\ Contains(SymptomWord, LowerStr(documents[i].page_content))
           /\ Contains(LowerStr(symptom), LowerStr(documents[i].page_content))

\* C29: get_symptom_followup_questions raises nothing: when the retriever
\* fails it returns an object with an error field and an empty question
\* list, and when no document matches the symptom it returns an object with
\* a message field and an empty question list.
C29_LookupNeverRaises ==
    (tool.fn = "get_symptom_followup_questions" /\ tool.done) =>
        /\ ~tool.ret.raised
        /\ tool.arg.raised =>
              /\ "error" \in DOMAIN tool.ret.value
              /\ tool.ret.value.questions = <<>>
        /\ ( /\ ~tool.arg.raised
             /\ \A i \in DOMAIN tool.arg.documents :
                   tool.arg.documents[i].symptom # None
             /\ ~SomeDocumentMatches(tool.arg.documents, Cough) ) =>
              /\ "message" \in DOMAIN tool.ret.value
              /\ tool.ret.value.questions = <<>>

\* the retriever raised and the call has returned
C29_Witness ==
    /\ tool.fn = "get_symptom_followup_questions"
    /\ tool.done
    /\ tool.arg.raised
    /\ tool.ret.value.questions = <<>>

----------------------------------------------------------------------------
(* A stored symptom list that is no serialized list *)

\* the text is what json.dumps writes for some list, or a text json.loads
\* reads as a list
IsSerializedList(text) == text # None /\ JsonDecode(text).kind = "list"

----------------------------------------------------------------------------
(* ask_followup_questions *)

\* C31: one execution of ask_followup_questions goes to the summary exactly
\* when the symptom list is empty, current_question_index is at least 5 or
\* current_symptom_index is outside the list; otherwise it emits the
\* template question at current_question_index for
\* symptoms[current_symptom_index], adds one to current_question_index in
\* the state and in the store, and keeps stage ASKING_FOLLOWUP_QUESTIONS.
C31_AskFollowupBranches ==
    [][pc = "ask_followup" =>
          LET symptoms == st.patient_data.symptoms
              q == st.current_question_index
              k == st.current_symptom_index
              emitted == st'.messages[Len(st'.messages)]
          IN  /\ Len(st'.messages) = Len(st.messages) + 1
              /\ IF symptoms = <<>> \/ q >= 5 \/ k \notin 0..(Len(symptoms) - 1)
                 THEN /\ emitted.kind = "summary"
                      /\ st'.consultation_stage = COMPLETED
                      /\ SummaryOf(StoreNext, st.session_id) # <<>>
                 ELSE /\ emitted = AIMessage("question",
                                       StandardQuestions(symptoms[k + 1])[q + 1])
                      /\ st'.current_question_index = q + 1
                      /\ st'.current_symptom_index = k
                      /\ Row(StoreNext, st.session_id).current_question_index =
                            q + 1
                      /\ st'.consultation_stage = ASKING_FOLLOWUP_QUESTIONS
                      /\ Row(StoreNext, st.session_id).consultation_stage =
                            ASKING_FOLLOWUP_QUESTIONS
                      /\ summaries' = summaries]_vars

\* the node has asked the last template question about the second of two
\* symptoms
C31_Witness ==
    /\ pc = "store_response"
    /\ steps = 1
    /\ st.current_symptom_index = 1
    /\ st.current_question_index = 5
    /\ st.messages[Len(st.messages)] =
          AIMessage("question", StandardQuestions(<<"b">>)[5])


C33_StagePersisted ==
    (steps >= 1 /\ HasRow(Store, st.session_id)) =>
        st.consultation_stage = Row(Store, st.session_id).consultation_stage


----------------------------------------------------------------------------
(* parse_symptom_questions: the shape of its result *)

\* the indices of a set of positions, in increasing order
RECURSIVE Ascending(_)
Ascending(S) ==
    IF S = {} THEN <<>>
    ELSE LET least == CHOOSE x \in S : \A y \in S : x <= y
         IN  <<least>> \o Ascending(S \ {least})

\* C34: prioritized_questions holds every question of questions_by_category
\* exactly once, is ordered by (priority ascending, category name ascending)
\* with the input order kept within a category, and total_questions is its
\* length.
C34_PrioritizedIsSortedPermutation ==
    (tool.fn = "parse_symptom_questions" /\ tool.done) =>
        LET qbc == tool.ret.questions_by_category
            sorted == tool.ret.prioritized_questions
        IN  /\ \A i \in DOMAIN sorted :
                  \E c \in DOMAIN qbc : qbc[c].category = sorted[i].category
            /\ \A c \in DOMAIN qbc :
                  LET here == {i \in DOMAIN sorted :
                                  sorted[i].category = qbc[c].category}
                  IN  [k \in 1..Cardinality(here) |-> sorted[Ascending(here)[k]]]
                          = qbc[c].questions
            /\ \A i, j \in DOMAIN sorted :
                  i < j =>
                      \/ sorted[i].priority < sorted[j].priority
                      \/ /\ sorted[i].priority = sorted[j].priority
                         /\ \/ sorted[i].category = sorted[j].category
                            \/ StrLess(sorted[i].category, sorted[j].category)
            /\ tool.ret.total_questions = Len(sorted)

\* a document whose first category has priority 6 and two questions and whose
\* second has priority 2 and two questions: the second category's questions
\* come first
C34_Witness ==
    /\ tool.fn = "parse_symptom_questions"
    /\ tool.done
    /\ tool.ret.categories = <<RStripColon(LifestyleOnly), RStripColon(VitalHeader)>>
    /\ tool.ret.total_questions = 4
    /\ tool.ret.prioritized_questions[1].category = RStripColon(VitalHeader)
    /\ tool.ret.prioritized_questions[1].priority = 2
    /\ tool.ret.prioritized_questions[3].priority = 6


\* C35: a recognized category header opens its category and resets its
\* question list, so a category holds only the questions between the last
\* occurrence of its header and the next header; question-like lines before
\* any header are in no category.
C35_RepeatedHeaderResets ==
    (tool.fn = "parse_symptom_questions" /\ tool.done) =>
        LET lines == SplitLines(tool.arg)
            line(i) == Strip(lines[i])
            clean(i) == Strip(SubBullet(SubNumber(line(i))))
            headers == {i \in DOMAIN lines : IsHeader(line(i))}
            qbc == tool.ret.questions_by_category
        IN  /\ {qbc[c].category : c \in DOMAIN qbc} =
                  {RStripColon(line(i)) : i \in headers}
            /\ \A c, d \in DOMAIN qbc : qbc[c].category = qbc[d].category => c = d
            /\ \A c \in DOMAIN qbc :
                  LET occurrences == {i \in headers :
                                         RStripColon(line(i)) = qbc[c].category}
                      last == CHOOSE i \in occurrences :
                                  \A o \in occurrences : o <= i
                      after == {j \in DOMAIN lines :
                                   /\ j > last
                                   /\ \A h \in headers : h > last => j < h
                                   /\ IsQuestionLine(line(j))
                                   /\ Len(clean(j)) > MinQuestionLen}
                  IN  [k \in 1..Cardinality(after) |-> clean(Ascending(after)[k])]
                          = [k \in DOMAIN qbc[c].questions |->
                                qbc[c].questions[k].text]

\* a question line, a Red Flags section with a question, a Vital Signs
\* section, then the Red Flags header again: Red Flags is empty and the first
\* line is nowhere
C35_Witness ==
    /\ tool.fn = "parse_symptom_questions"
    /\ tool.done
    /\ tool.arg = JoinLines(<<PlainQuestion, RedHeader, NumberedQuestion,
                              VitalHeader, DashQuestion, ShortQuestion,
                              NumberedQuestion, RedHeader>>)
    /\ tool.ret.questions_by_category[1] =
          [category |-> RStripColon(RedHeader), questions |-> <<>>]
    /\ tool.ret.total_questions = 2


\* C36: once a consultation is persisted as COMPLETED, a further turn on the
\* session emits no follow-up question and leaves the consultation row,
\* consultation_end_time included, and the summary row as they were.
C36_CompletedIsFinal ==
    LET s == st.session_id
    IN  (pc # "idle" /\ steps >= 1 /\ HasRow(pre, s)
            /\ Row(pre, s).consultation_stage = COMPLETED) =>
            /\ QuestionsIn(st.messages) = {}
            /\ Row(Store, s) = Row(pre, s)
            /\ SummaryOf(Store, s) = SummaryOf(pre, s)


\* C37: in every store state reachable through turns, data is collected in
\* order: patient_email non-null implies patient_name non-null; a non-empty
\* symptom list implies name and e-mail non-null and stage
\* ASKING_FOLLOWUP_QUESTIONS or COMPLETED; current_question_index above 0
\* implies a non-empty symptom list; current_question_index is in 0..5.
C37_CollectedInOrder ==
    \A i \in DOMAIN consultations :
        LET row == consultations[i]
            symptoms == JsonLoads(row.symptoms_reported)
        IN  /\ row.patient_email # None => row.patient_name # None
            /\ symptoms # <<>> =>
                  /\ row.patient_name # None
                  /\ row.patient_email # None
                  /\ row.consultation_stage \in
                        {ASKING_FOLLOWUP_QUESTIONS, COMPLETED}
            /\ row.current_question_index > 0 => symptoms # <<>>
            /\ row.current_question_index \in 0..QuestionCap


\* a turn that found name and e-mail in the row took two symptoms, asked
\* its questions and completed the consultation
C37_Witness ==
    LET s == st.session_id
    IN  /\ pc = "END"
        /\ HasRow(pre, s)
        /\ Row(pre, s).consultation_stage = COLLECTING_SYMPTOMS
        /\ Len(JsonLoads(Row(Store, s).symptoms_reported)) = 2
        /\ Row(Store, s).current_question_index = QuestionCap
        /\ Row(Store, s).consultation_stage = COMPLETED


\* C38: in every store state reachable through turns, a consultation with
\* completed = true has exactly one summary row: the summary is written
\* before the consultation is marked completed.
C38_CompletedHasOneSummary ==
    \A i \in DOMAIN consultations :
        consultations[i].completed =>
            Len(SummaryOf(Store, consultations[i].session_id)) = 1

\* a turn has just completed a consultation that was not completed when the
\* turn began, and the session had no summary then
C38_Witness ==
    LET s == st.session_id
    IN  /\ pc = "END"
        /\ HasRow(pre, s)
        /\ ~Row(pre, s).completed
        /\ SummaryOf(pre, s) = <<>>
        /\ Row(Store, s).completed
        /\ Len(SummaryOf(Store, s)) = 1


----------------------------------------------------------------------------
(* Rendering and parsing *)

\* the questions of a rendered category that the claim expects back
Recoverable(questions) ==
    LET Long(q) == Len(q) > MinQuestionLen
    IN  SelectSeq(SubSeq(questions, 1, IF Len(questions) < 5 THEN Len(questions)
                                       ELSE 5), Long)

\* C39: parsing a document rendered by process_medical_symptoms_json
\* recovers, for each rendered category whose title contains a recognized
\* category keyword, exactly the questions rendered under it (of more than
\* 10 characters), with no other entry and no question attributed to a
\* different category.
C39_RoundTrip ==
    (tool.fn = "parse_symptom_questions" /\ tool.done
        /\ "item" \in DOMAIN tool) =>
        LET rendered == tool.item.follow_up_questions
            title(c) == Title(ReplaceUnderscore(c.category)) \o Questions
            recognized == {i \in DOMAIN rendered :
                              \E k \in Keywords :
                                  Contains(k, LowerStr(title(rendered[i])))}
            qbc == tool.ret.questions_by_category
        IN  /\ {qbc[c].category : c \in DOMAIN qbc} =
                  {title(rendered[i]) : i \in recognized}
            /\ \A i \in recognized :
                  \A c \in DOMAIN qbc :
                      qbc[c].category = title(rendered[i]) =>
                          [k \in DOMAIN qbc[c].questions |->
                              qbc[c].questions[k].text]
                              = Recoverable(rendered[i].questions)

====
